---- MODULE Spec2Model ----
(***************************************************************************)
(* Job queue, dispatcher and job runtime of the RFQ summary service        *)
(* (src/src/rfq_summary/api.py) with the audit-log sink                    *)
(* (src/src/rfq_summary/gsheet_logger.py).                                 *)
(*                                                                         *)
(* The service runs on one asyncio event loop.  A coroutine runs           *)
(* atomically from one suspension point to the next; callbacks that are    *)
(* ready to run wait in the loop's FIFO ready queue (variable ready).      *)
(* Request arrival, completion of a worker thread (asyncio.to_thread),     *)
(* the wait_for timer and the passing of time are external events.         *)
(***************************************************************************)
EXTENDS Integers, Sequences, FiniteSets, TLC

\* ---------------------------------------------------------------- bounds
MaxJobs == 3            \* number of submissions considered
MaxQueueCfg == 2        \* MAX_QUEUE_SIZE is 0 or MaxQueueCfg
MaxConcCfg == 2         \* MAX_CONCURRENT_JOBS is 0 or MaxConcCfg
MaxTimeoutCfg == 2      \* JOB_TIMEOUT_SEC is 0 or MaxTimeoutCfg * MinTimeoutSec

\* ------------------------------------------------------ program constants
MinTimeoutSec == 30     \* floor of the wall-clock limit, max(30, ...)
MinQueueSize == 1       \* floor of the queue limit, max(1, ...)
MinConcurrent == 1      \* floor of the permit pool, max(1, ...)

Jobs == 1..MaxJobs       \* run_ids, in order of submission
TaskIds == 1..MaxJobs    \* tasks spawned by the dispatcher, in order of creation
Dispatcher == 0          \* the dispatcher's entry in the ready queue

Max(a, b) == IF a > b THEN a ELSE b

VARIABLES
    settings,   \* Settings(): max_queue_size, max_concurrent_jobs, job_timeout_sec
    queue,      \* app.state.job_queue: sequence of run_ids
    sem,        \* app.state.job_semaphore: its value (free permits)
    dpc,        \* dispatcher: await it resumes at ("get", "acquire")
    dst,        \* dispatcher: "blocked" on its await or "ready" (woken)
    job,        \* the local variable job of _dispatcher_loop (0 = unbound)
    ready,      \* FIFO ready queue of the event loop
    ntasks,     \* number of tasks created by the dispatcher
    tpc,        \* task: "none", "created", "working", "writing", "finished"
    tjob,       \* task: run_id it executes (read from job at its first step)
    pending,    \* task: what its await delivers on resume (kept once finished)
    elapsed,    \* task: seconds spent inside wait_for
    term,       \* task: terminal event it recorded
    firedAt,    \* task: value of elapsed when its wait_for timer fired (-1: never)
    attempt,    \* task: work steps started ("none", "run", "write")
    nsub,       \* number of submissions so far
    resp,       \* per run_id: answer to the submission
    events,     \* per run_id: status events handed to the audit log, in order
    auditFail,  \* some audit-log write has failed
    deq,        \* per run_id: number of times the dispatcher took it off the queue
    genFail,    \* tasks whose generate_text call raised
    call,       \* function analysed on its own: its name and arguments
    frame       \* function analysed on its own: its local variables and result

vars == <<settings, queue, sem, dpc, dst, job, ready, ntasks, tpc, tjob, pending,
          elapsed, term, firedAt, attempt, nsub, resp, events, auditFail, deq,
          genFail, call, frame>>

qvars == <<queue, sem, dpc, dst, job, ready>>
tvars == <<ntasks, tpc, tjob, pending, elapsed, term, firedAt, attempt>>
jvars == <<nsub, resp, events, auditFail, deq>>
fvars == <<call, frame>>

NoEvent == [status |-> "none", msg |-> "", sec |-> -1]

\* ------------------------------------------------------------ configuration
\* The environments considered: each setting is 0 (below its floor) or at
\* its bound.  JOB_TIMEOUT_SEC changes the seconds of the limit and of the
\* message and no control flow, so the value below the floor is combined
\* with MAX_CONCURRENT_JOBS below its floor only.
SettingsDomain ==
    {s \in [max_queue_size : {0, MaxQueueCfg},
            max_concurrent_jobs : {0, MaxConcCfg},
            job_timeout_sec : {0, MaxTimeoutCfg * MinTimeoutSec}] :
        s.job_timeout_sec = 0 => s.max_concurrent_jobs = 0}

\* max_q = max(1, int(settings.max_queue_size))
MaxQ(s) == Max(MinQueueSize, s.max_queue_size)

\* asyncio.Semaphore(max(1, int(settings.max_concurrent_jobs)))
SemInit(s) == Max(MinConcurrent, s.max_concurrent_jobs)

\* timeout=max(30, int(settings.job_timeout_sec))
\* (_NoFloor: the limit without the floor, a fault variant)
WaitForTimeout_NoFloor(s) == s.job_timeout_sec
WaitForTimeout(s) == Max(MinTimeoutSec, s.job_timeout_sec)

\* if _queue_size() >= max_q
\* (_OffByOne, _Strict: the comparison off by one either way, fault variants)
QueueFull_OffByOne(depth, maxq) == depth + 1 >= maxq
QueueFull_Strict(depth, maxq) == depth > maxq
QueueFull(depth, maxq) == depth >= maxq

\* asyncio.Queue.get(): the queue after the head was taken
\* (_Peek: the head is left in the queue, a fault variant)
QueueAfterGet_Peek(q) == q
QueueAfterGet(q) == Tail(q)

\* sem.acquire(): the value after a permit was taken
\* (_Free: no permit is consumed, a fault variant)
SemAfterAcquire_Free(v) == v
SemAfterAcquire(v) == v - 1

\* finally: sem.release(): the value after the permit was given back
\* (_Lost: the permit is not given back, a fault variant)
SemAfterRelease_Lost(v) == v
SemAfterRelease(v) == v + 1

\* Audit log: append_rows swallows every exception of the write, and every
\* call of log_job_event in api.py sits in try/except Exception: pass.
\* LogRaises(ok) tells whether an exception of a write (ok = FALSE: the
\* write failed) reaches the control flow of the caller.
\* (_Propagate: the exception is not swallowed, a fault variant)
LogRaises_Propagate(ok) == ~ok
LogRaises(ok) == FALSE

\* the events _run_job and _enqueue_or_reject hand to log_job_event
QueuedEvent == [status |-> "QUEUED", msg |-> "Queued", sec |-> -1]
RejectedEvent == [status |-> "REJECTED_QUEUE_FULL", msg |-> "Queue full", sec |-> -1]
RunningEvent == [status |-> "RUNNING", msg |-> "Job started", sec |-> -1]
DoneEvent == [status |-> "DONE", msg |-> "Job completed", sec |-> -1]
ErrorEvent == [status |-> "FAILED", msg |-> "exception", sec |-> -1]
\* (_AsError: the timeout recorded like any other exception, a fault variant)
TimeoutEvent_AsError(s) == ErrorEvent
TimeoutEvent(s) ==
    [status |-> "FAILED", msg |-> "Job timeout after", sec |-> s.job_timeout_sec]

\* ------------------------------------------------------------------ Init
Init ==
    /\ settings \in SettingsDomain
    /\ queue = << >>
    /\ sem = SemInit(settings)
    /\ dpc = "get"
    /\ dst = "blocked"
    /\ job = 0
    /\ ready = << >>
    /\ ntasks = 0
    /\ tpc = [t \in TaskIds |-> "none"]
    /\ tjob = [t \in TaskIds |-> 0]
    /\ pending = [t \in TaskIds |-> "none"]
    /\ elapsed = [t \in TaskIds |-> 0]
    /\ term = [t \in TaskIds |-> NoEvent]
    /\ firedAt = [t \in TaskIds |-> -1]
    /\ attempt = [t \in TaskIds |-> "none"]
    /\ nsub = 0
    /\ resp = [j \in Jobs |-> "none"]
    /\ events = [j \in Jobs |-> << >>]
    /\ auditFail = FALSE
    /\ deq = [j \in Jobs |-> 0]
    /\ genFail = {}
    /\ call = "none"
    /\ frame = "none"

\* log_job_event(run_id = j, ev), whose write succeeds iff ok
LogJobEvent(j, ev, ok) ==
    /\ events' = [events EXCEPT ![j] = Append(@, ev)]
    /\ auditFail' = (auditFail \/ ~ok)

\* --------------------------------------------------------- _enqueue_or_reject
\* One request handler runs _enqueue_or_reject without suspending: the queue
\* is unbounded, so await put() returns at once.
Submit(ok) ==
    /\ nsub < MaxJobs
    /\ LET j == nsub + 1 IN
       /\ nsub' = j
       /\ IF QueueFull(Len(queue), MaxQ(settings))
          THEN /\ LogJobEvent(j, RejectedEvent, ok)
               /\ resp' = [resp EXCEPT ![j] = "rejected"]
               /\ UNCHANGED <<queue, dst, ready>>
          ELSE /\ queue' = Append(queue, j)
               \* put_nowait wakes the getter of the dispatcher
               /\ IF dst = "blocked" /\ dpc = "get"
                  THEN dst' = "ready" /\ ready' = Append(ready, Dispatcher)
                  ELSE UNCHANGED <<dst, ready>>
               /\ LogJobEvent(j, QueuedEvent, ok)
               \* an exception leaving the QUEUED log would fail the request
               /\ resp' = [resp EXCEPT ![j] =
                              IF LogRaises(ok) THEN "error" ELSE "queued"]
    /\ UNCHANGED <<settings, sem, dpc, job, deq>>
    /\ UNCHANGED tvars
    /\ UNCHANGED <<genFail, call, frame>>

\* ----------------------------------------------------------- _dispatcher_loop
\* The dispatcher runs from the await that woke it to the next await that
\* suspends it; no other callback runs in between.  d is the part of the
\* state it works on.

\* job = await _get_queue().get(), the queue not being empty
DGet(d) ==
    [d EXCEPT !.job = Head(d.queue),
              !.queue = QueueAfterGet(d.queue),
              !.deq = [d.deq EXCEPT ![Head(d.queue)] = @ + 1],
              !.dpc = "acquire"]

\* await sem.acquire(), a permit being free
DAcquire(d) ==
    [d EXCEPT !.sem = SemAfterAcquire(d.sem), !.dpc = "spawn"]

\* asyncio.create_task(_wrapped()): the new task is scheduled, not started;
\* _wrapped refers to the variable job, not to its value
DSpawn(d) ==
    [d EXCEPT !.ntasks = d.ntasks + 1,
              !.ready = Append(d.ready, d.ntasks + 1),
              !.dpc = "get"]

\* while True: ... until get() finds the queue empty or acquire() finds no
\* free permit
RECURSIVE DRun(_)
DRun(d) ==
    CASE d.dpc = "get" /\ d.queue # << >> -> DRun(DGet(d))
      [] d.dpc = "acquire" /\ d.sem > 0 -> DRun(DAcquire(d))
      [] d.dpc = "spawn" /\ d.ntasks < MaxJobs -> DRun(DSpawn(d))
      [] OTHER -> d

\* the event loop resumes the dispatcher
Dispatch ==
    /\ ready # << >>
    /\ Head(ready) = Dispatcher
    /\ dst = "ready"
    /\ LET d == DRun([queue |-> queue, sem |-> sem, job |-> job, dpc |-> dpc,
                      ntasks |-> ntasks, ready |-> Tail(ready), deq |-> deq])
       IN  /\ queue' = d.queue
           /\ sem' = d.sem
           /\ job' = d.job
           /\ dpc' = d.dpc
           /\ ntasks' = d.ntasks
           /\ ready' = d.ready
           /\ deq' = d.deq
           /\ tpc' = [t \in TaskIds |->
                         IF t > ntasks /\ t <= d.ntasks THEN "created" ELSE tpc[t]]
    /\ dst' = "blocked"
    /\ UNCHANGED <<settings, tjob, pending, elapsed, term, firedAt, attempt>>
    /\ UNCHANGED <<nsub, resp, events, auditFail>>
    /\ UNCHANGED <<genFail, call, frame>>

\* ------------------------------------------------------------------ _wrapped
\* finally: sem.release(), leaving rdy as the rest of the ready queue; a
\* dispatcher blocked in sem.acquire() is woken
Release(rdy) ==
    /\ sem' = SemAfterRelease(sem)
    /\ IF dst = "blocked" /\ dpc = "acquire"
       THEN dst' = "ready" /\ ready' = Append(rdy, Dispatcher)
       ELSE dst' = dst /\ ready' = rdy

NextReady(t) == ready # << >> /\ Head(ready) = t

\* the task waits for a worker thread inside wait_for
Waiting(t) == tpc[t] \in {"working", "writing"} /\ pending[t] = "none"

\* -------------------------------------------------------------------- _run_job
\* First step of a task: _wrapped reads the variable job, _run_job records
\* RUNNING, validates the payload (already validated by the endpoint under
\* the same settings) and starts run_pricing / run_summary in a thread
\* under wait_for.
TaskStart(t, ok) ==
    /\ NextReady(t)
    /\ tpc[t] = "created"
    /\ tjob' = [tjob EXCEPT ![t] = job]
    /\ LogJobEvent(job, RunningEvent, ok)
    /\ IF LogRaises(ok)
       THEN \* the exception leaves _run_job; only the finally clause runs
            /\ tpc' = [tpc EXCEPT ![t] = "finished"]
            /\ Release(Tail(ready))
            /\ UNCHANGED <<attempt, elapsed>>
       ELSE /\ tpc' = [tpc EXCEPT ![t] = "working"]
            /\ attempt' = [attempt EXCEPT ![t] = "run"]
            /\ elapsed' = [elapsed EXCEPT ![t] = 0]
            /\ ready' = Tail(ready)
            /\ UNCHANGED <<sem, dst>>
    /\ UNCHANGED <<settings, queue, dpc, job, ntasks, pending, term, firedAt>>
    /\ UNCHANGED <<nsub, resp, deq>>
    /\ UNCHANGED <<genFail, call, frame>>

\* run_pricing / run_summary returned: await asyncio.to_thread(write_all, ...)
TaskWrite(t) ==
    /\ NextReady(t)
    /\ tpc[t] = "working"
    /\ pending[t] = "ok"
    /\ tpc' = [tpc EXCEPT ![t] = "writing"]
    /\ attempt' = [attempt EXCEPT ![t] = "write"]
    /\ pending' = [pending EXCEPT ![t] = "none"]
    /\ ready' = Tail(ready)
    /\ UNCHANGED <<settings, queue, sem, dpc, dst, job>>
    /\ UNCHANGED <<ntasks, tjob, elapsed, term, firedAt>>
    /\ UNCHANGED jvars
    /\ UNCHANGED <<genFail, call, frame>>

\* the terminal event of a task whose await delivered res
TerminalEvent(res, s) ==
    CASE res = "ok" -> DoneEvent
      [] res = "timeout" -> TimeoutEvent(s)
      [] OTHER -> ErrorEvent

\* End of _run_job: DONE after write_all returned, FAILED in the handlers of
\* asyncio.TimeoutError and Exception; then the finally clause of _wrapped.
TaskFinish(t, ok) ==
    /\ NextReady(t)
    /\ \/ tpc[t] = "writing" /\ pending[t] = "ok"
       \/ tpc[t] \in {"working", "writing"} /\ pending[t] \in {"raise", "timeout"}
    /\ LET ev == TerminalEvent(pending[t], settings)
           j == tjob[t]
       IN  IF pending[t] = "ok" /\ LogRaises(ok)
           THEN \* an exception leaving the DONE log is caught by
                \* except Exception, which records FAILED
                /\ events' = [events EXCEPT ![j] = Append(Append(@, ev), ErrorEvent)]
                /\ auditFail' = TRUE
                /\ term' = [term EXCEPT ![t] = ErrorEvent]
           ELSE /\ LogJobEvent(j, ev, ok)
                /\ term' = [term EXCEPT ![t] = ev]
    /\ tpc' = [tpc EXCEPT ![t] = "finished"]
    /\ elapsed' = [elapsed EXCEPT ![t] = 0]
    /\ Release(Tail(ready))
    /\ UNCHANGED <<settings, queue, dpc, job>>
    /\ UNCHANGED <<ntasks, tjob, pending, firedAt, attempt>>
    /\ UNCHANGED <<nsub, resp, deq>>
    /\ UNCHANGED <<genFail, call, frame>>

\* ------------------------------------------------------------ external events
\* the worker thread of a task returns (res = "ok") or raises (res = "raise")
BodyDone(t, res) ==
    /\ Waiting(t)
    /\ pending' = [pending EXCEPT ![t] = res]
    /\ ready' = Append(ready, t)
    /\ UNCHANGED <<settings, queue, sem, dpc, dst, job>>
    /\ UNCHANGED <<ntasks, tpc, tjob, elapsed, term, firedAt, attempt>>
    /\ UNCHANGED jvars
    /\ UNCHANGED <<genFail, call, frame>>

\* the timer of asyncio.wait_for fires: the work is cancelled (its thread
\* is not interrupted) and asyncio.TimeoutError is raised in _run_job
Timeout(t) ==
    /\ Waiting(t)
    /\ elapsed[t] >= WaitForTimeout(settings)
    /\ pending' = [pending EXCEPT ![t] = "timeout"]
    /\ firedAt' = [firedAt EXCEPT ![t] = elapsed[t]]
    /\ ready' = Append(ready, t)
    /\ UNCHANGED <<settings, queue, sem, dpc, dst, job>>
    /\ UNCHANGED <<ntasks, tpc, tjob, elapsed, term, attempt>>
    /\ UNCHANGED jvars
    /\ UNCHANGED <<genFail, call, frame>>

\* seconds until the earliest timer of a waiting task is due
NextDue ==
    LET left == {WaitForTimeout(settings) - elapsed[t] : t \in {u \in TaskIds : Waiting(u)}}
    IN  CHOOSE d \in left : \A e \in left : d <= e

\* Time passes until the earliest timer is due; a timer that is due fires
\* before more time passes.
Tick ==
    /\ \E t \in TaskIds : Waiting(t)
    /\ \A t \in TaskIds : Waiting(t) => elapsed[t] < WaitForTimeout(settings)
    /\ elapsed' = [t \in TaskIds |->
                      IF Waiting(t) THEN elapsed[t] + NextDue ELSE elapsed[t]]
    /\ UNCHANGED <<settings, queue, sem, dpc, dst, job, ready>>
    /\ UNCHANGED <<ntasks, tpc, tjob, pending, term, firedAt, attempt>>
    /\ UNCHANGED jvars
    /\ UNCHANGED <<genFail, call, frame>>

\* ---------------------------------------------------------------- behaviours
Next ==
    \/ \E ok \in BOOLEAN : Submit(ok)
    \/ Dispatch
    \/ \E t \in TaskIds, ok \in BOOLEAN : TaskStart(t, ok)
    \/ \E t \in TaskIds : TaskWrite(t)
    \/ \E t \in TaskIds, ok \in BOOLEAN : TaskFinish(t, ok)
    \/ \E t \in TaskIds, res \in {"ok", "raise"} : BodyDone(t, res)
    \/ \E t \in TaskIds : Timeout(t)
    \/ Tick

Spec == Init /\ [][Next]_vars

\* The event loop runs every callback of its ready queue, time passes and a
\* due timer fires.  Nothing obliges a request to arrive or a worker thread
\* to return.
LoopStep ==
    \/ Dispatch
    \/ \E t \in TaskIds, ok \in BOOLEAN : TaskStart(t, ok)
    \/ \E t \in TaskIds : TaskWrite(t)
    \/ \E t \in TaskIds, ok \in BOOLEAN : TaskFinish(t, ok)

FairSpec ==
    /\ Spec
    /\ WF_vars(LoopStep)
    /\ WF_vars(\E t \in TaskIds : Timeout(t))
    /\ WF_vars(Tick)

TypeOK ==
    /\ settings \in SettingsDomain
    /\ sem \in 0..SemInit(settings)
    /\ dpc \in {"get", "acquire", "spawn"}
    /\ dst \in {"blocked", "ready"}
    /\ job \in 0..MaxJobs
    /\ ntasks \in 0..MaxJobs
    /\ nsub \in 0..MaxJobs
    /\ \A t \in TaskIds : tpc[t] \in {"none", "created", "working", "writing", "finished"}
    /\ \A t \in TaskIds : pending[t] \in {"none", "ok", "raise", "timeout"}
    /\ \A j \in Jobs : resp[j] \in {"none", "queued", "rejected", "error"}

\* ------------------------------------------------------------- vocabulary
Terminal == {"DONE", "FAILED", "TIMED_OUT"}

CountStatus(evs, S) == Cardinality({i \in 1..Len(evs) : evs[i].status \in S})

HasStatus(j, S) == \E i \in 1..Len(events[j]) : events[j][i].status \in S

InQueue(j) == \E i \in 1..Len(queue) : queue[i] = j

Rejected == {j \in Jobs : resp[j] = "rejected"}
Queued == {j \in Jobs : resp[j] = "queued"}

\* no job has recorded a terminal status
NoneCompleted == \A j \in Jobs : ~HasStatus(j, Terminal)

\* tasks between their RUNNING event and their terminal event
Active == {t \in TaskIds : tpc[t] \in {"working", "writing"}}

\* run_ids with more RUNNING events than terminal events
RunningRuns ==
    {j \in Jobs : CountStatus(events[j], {"RUNNING"}) > CountStatus(events[j], Terminal)}

\* tasks that hold a permit
Held == {t \in TaskIds : tpc[t] \in {"created", "working", "writing"}}

TimedOut(t) == tpc[t] = "finished" /\ pending[t] = "timeout"

\* the dispatcher waits in sem.acquire() with the job it took off the queue
AwaitsSlot == dst = "blocked" /\ dpc = "acquire"

\* ---------------------------------------------------------------------- C1
\* C1 (as stated): a submission arriving at queue depth >= the configured
\* max_queue_size is rejected and leaves the queue unchanged; one arriving
\* below it is appended to the queue and answered queued.
C1_AsStated ==
    [][\A j \in Jobs :
         (resp[j] = "none" /\ resp'[j] # "none") =>
            IF Len(queue) >= settings.max_queue_size
            THEN resp'[j] = "rejected" /\ queue' = queue
            ELSE resp'[j] = "queued" /\ queue' = Append(queue, j)]_vars

\* C1 (amended): the same with the effective maximum max(1, max_queue_size)
\* in place of the configured value.
C1_Admission ==
    [][\A j \in Jobs :
         (resp[j] = "none" /\ resp'[j] # "none") =>
            IF Len(queue) >= (IF settings.max_queue_size > 1
                              THEN settings.max_queue_size ELSE 1)
            THEN resp'[j] = "rejected" /\ queue' = queue
            ELSE resp'[j] = "queued" /\ queue' = Append(queue, j)]_vars

C1_Witness ==
    \E j, k \in Jobs :
        /\ resp[j] = "queued" /\ InQueue(j)
        /\ resp[k] = "rejected" /\ ~InQueue(k)
        /\ settings.max_queue_size = MaxQueueCfg

\* ---------------------------------------------------------------------- C2
\* C2 (as stated): once max_queue_size + 1 jobs were submitted and none has
\* completed, exactly one was rejected and max_queue_size were queued.
C2_AsStated ==
    (nsub = settings.max_queue_size + 1 /\ NoneCompleted) =>
        /\ Cardinality(Rejected) = 1
        /\ Cardinality(Queued) = settings.max_queue_size

\* C2 (amended): once max_queue_size + 1 jobs were submitted and none has
\* completed, at most one was rejected and all others were queued; exactly
\* one was rejected when max_queue_size >= 1 and the dispatcher has taken no
\* job off the queue.
C2_AtMostOneRejected ==
    (nsub = settings.max_queue_size + 1 /\ NoneCompleted) =>
        /\ Cardinality(Rejected) <= 1
        /\ Cardinality(Rejected) + Cardinality(Queued) = nsub
        /\ (settings.max_queue_size >= 1 /\ \A j \in Jobs : deq[j] = 0)
              => Cardinality(Rejected) = 1

C2_Witness ==
    /\ settings.max_queue_size >= 2
    /\ nsub = settings.max_queue_size + 1
    /\ NoneCompleted
    /\ Cardinality(Rejected) = 0
    /\ \E j \in Jobs : deq[j] = 1

\* ---------------------------------------------------------------------- C3
\* C3 (as stated): at most max_concurrent_jobs jobs have recorded RUNNING
\* and no terminal status yet.
C3_AsStated ==
    /\ Cardinality(Active) <= settings.max_concurrent_jobs
    /\ Cardinality(RunningRuns) <= settings.max_concurrent_jobs

\* C3 (amended): the bound is the effective pool size
\* max(1, max_concurrent_jobs).
C3_BoundedRunning ==
    LET cap == IF settings.max_concurrent_jobs > 1
               THEN settings.max_concurrent_jobs ELSE 1
    IN  /\ Cardinality(Active) <= cap
        /\ Cardinality(RunningRuns) <= cap

C3_Witness ==
    /\ Cardinality(Active) >= 2
    /\ Cardinality(Active) = settings.max_concurrent_jobs
    /\ nsub = MaxJobs

\* ---------------------------------------------------------------------- C4
\* C4 (as stated): a job whose timeout expired records the status TIMED_OUT.
C4_AsStated ==
    \A t \in TaskIds : TimedOut(t) => term[t].status = "TIMED_OUT"

\* C4 (amended): a job whose timeout expired records the status FAILED, the
\* status of every other failure, with the message "Job timeout after ...",
\* which no other failure carries; it never records DONE.
C4_TimeoutRecordsFailed ==
    \A t \in TaskIds :
        /\ TimedOut(t) =>
              /\ term[t].status = "FAILED"
              /\ term[t].msg = "Job timeout after"
              /\ \E i \in 1..Len(events[tjob[t]]) : events[tjob[t]][i] = term[t]
        /\ (tpc[t] = "finished" /\ pending[t] = "raise") =>
              /\ term[t].status = "FAILED"
              /\ term[t].msg # "Job timeout after"
        /\ (tpc[t] = "finished" /\ term[t].status = "DONE") => pending[t] = "ok"

C4_Witness ==
    \E t, u \in TaskIds :
        /\ TimedOut(t)
        /\ tpc[u] = "finished" /\ pending[u] = "raise"

C6_AsStated ==
    \A t \in TaskIds :
        TimedOut(t) =>
            /\ firedAt[t] = settings.job_timeout_sec
            /\ term[t].sec = firedAt[t]

\* C6 (amended): a job is abandoned after max(30, job_timeout_sec) seconds;
\* the timeout message reports job_timeout_sec, which is that duration
\* exactly when job_timeout_sec >= 30.
C6_LimitAndMessage ==
    \A t \in TaskIds :
        /\ pending[t] = "timeout" =>
              firedAt[t] = (IF settings.job_timeout_sec > MinTimeoutSec
                            THEN settings.job_timeout_sec ELSE MinTimeoutSec)
        /\ pending[t] # "timeout" => firedAt[t] = -1
        /\ TimedOut(t) =>
              /\ term[t].sec = settings.job_timeout_sec
              /\ (settings.job_timeout_sec >= MinTimeoutSec
                     => term[t].sec = firedAt[t])

C6_Witness ==
    \E t \in TaskIds :
        TimedOut(t) /\ firedAt[t] > MinTimeoutSec /\ term[t].sec = firedAt[t]

\* ---------------------------------------------------------------------- C7
\* C7 (as stated): whenever the queue is non-empty the loop can take the
\* next job, even while every permit is held: it is never blocked.
C7_AsStated == queue # << >> => dst # "blocked"

\* C7 (amended): the execution of jobs is decoupled from the loop, the
\* acquisition of the slot is not.  With a non-empty queue the loop is
\* blocked only in sem.acquire(), holding one job it took off the queue,
\* and only while every permit is held by an unfinished job.
C7_BlockedOnlyForASlot ==
    LET cap == IF settings.max_concurrent_jobs > 1
               THEN settings.max_concurrent_jobs ELSE 1
    IN  (queue # << >> /\ dst = "blocked") =>
            /\ dpc = "acquire"
            /\ job # 0
            /\ sem = 0
            /\ Cardinality(Held) = cap

C7_Witness ==
    /\ queue # << >>
    /\ AwaitsSlot
    /\ Active # {}
    /\ Active = Held

\* ---------------------------------------------------------------------- C8
\* C8: every accepted job is taken off the queue at most once and is never
\* put back: it is either in the queue, once, and was never taken, or not
\* in the queue and was taken exactly once; this holds whatever became of it.
C8_DequeuedOnce ==
    \A j \in Jobs :
        /\ deq[j] <= 1
        /\ Cardinality({i \in 1..Len(queue) : queue[i] = j}) <= 1
        /\ resp[j] = "queued" => (InQueue(j) <=> deq[j] = 0)
        /\ resp[j] # "queued" => (~InQueue(j) /\ deq[j] = 0)

C8_Witness ==
    \E t, u \in TaskIds :
        /\ tpc[t] = "finished" /\ term[t].status = "FAILED"
        /\ tpc[u] = "finished" /\ term[u].status = "DONE"
        /\ \A j \in Jobs : resp[j] = "queued" /\ deq[j] = 1
        /\ queue = << >>

\* ---------------------------------------------------------------------- C9
\* C9: whether or not an audit-log write failed, a submission that passed
\* admission is answered queued, every task that ended has run the job
\* body, has recorded DONE exactly when run and writeback returned and
\* FAILED exactly when one of them raised or the timeout expired, and has
\* given its permit back.
C9_AuditFailureHarmless ==
    LET cap == IF settings.max_concurrent_jobs > 1
               THEN settings.max_concurrent_jobs ELSE 1
    IN  /\ \A j \in Jobs : resp[j] # "error"
        /\ \A t \in TaskIds :
              tpc[t] = "finished" =>
                 /\ attempt[t] # "none"
                 /\ term[t].status = "DONE" <=>
                       (attempt[t] = "write" /\ pending[t] = "ok")
                 /\ term[t].status = "FAILED" <=>
                       pending[t] \in {"raise", "timeout"}
        /\ sem + Cardinality(Held) = cap

C9_Witness ==
    /\ auditFail
    /\ nsub = 1
    /\ resp[1] = "queued"
    /\ tpc[1] = "finished" /\ tjob[1] = 1 /\ term[1].status = "DONE"
    /\ sem = (IF settings.max_concurrent_jobs > 1
              THEN settings.max_concurrent_jobs ELSE 1)

\* --------------------------------------------------------------------- C10
\* C10 (as stated): once a job has failed, every other accepted job still
\* records RUNNING and a terminal status eventually.
C10_AsStated ==
    \A j \in Jobs :
        (/\ resp[j] = "queued"
         /\ \E t \in TaskIds :
               tpc[t] = "finished" /\ term[t].status = "FAILED" /\ tjob[t] # j)
        ~> (HasStatus(j, {"RUNNING"}) /\ HasStatus(j, Terminal))

\* ================================================================ run_pricing
\* run_pricing / run_summary call generate_text without a handler: an
\* exception of the call leaves the worker thread, then _do_work (before
\* its await of write_all) and wait_for, and reaches except Exception of
\* _run_job.
GenerateFails(t) ==
    /\ Waiting(t)
    /\ tpc[t] = "working"
    /\ pending' = [pending EXCEPT ![t] = "raise"]
    /\ genFail' = genFail \cup {t}
    /\ ready' = Append(ready, t)
    /\ UNCHANGED <<settings, queue, sem, dpc, dst, job>>
    /\ UNCHANGED <<ntasks, tpc, tjob, elapsed, term, firedAt, attempt>>
    /\ UNCHANGED jvars
    /\ UNCHANGED fvars

\* the service with the failures of generate_text told apart from the other
\* failures of the worker thread
NextGen ==
    \/ Next
    \/ \E t \in TaskIds : GenerateFails(t)

GenSpec == Init /\ [][NextGen]_vars

\* tasks that have invoked write_all
Wrote == {t \in TaskIds : attempt[t] = "write"}

\* --------------------------------------------------------------------- C11
\* C11 (as stated): when the text-generation call of a job fails, the job
\* is recorded FAILED and the writeback is never invoked for that job.
C11_AsStated ==
    \A t \in genFail :
        /\ tpc[t] = "finished" =>
              /\ term[t].status = "FAILED"
              /\ HasStatus(tjob[t], {"FAILED"})
        /\ \A u \in Wrote : tjob[u] # tjob[t]

\* =========================================================== attachment URLs
\* A URL is a sequence of characters.  Of the characters the cleaning tells
\* apart, one of each class is used: a letter, a quote, a piece of trailing
\* punctuation, a space and a newline.  "%20" stands for the three
\* characters the cleaning writes for a space.
MaxUrlLen == 4          \* length of a raw URL
MaxUrls == 2            \* number of raw URLs of the product

UrlChars == {"a", "'", ")", " ", "\n"}
Whitespace == {" ", "\n"}
TrailingJunk == {")"}

RECURSIVE SeqsUpTo(_, _)
SeqsUpTo(S, n) ==
    IF n = 0 THEN {<< >>}
    ELSE LET shorter == SeqsUpTo(S, n - 1)
         IN  shorter \cup {Append(q, c) : q \in shorter, c \in S}

RawUrls == SeqsUpTo(UrlChars, MaxUrlLen)

\* str.lstrip(), str.rstrip(), str.strip()
RECURSIVE LStrip(_)
LStrip(s) == IF s # << >> /\ Head(s) \in Whitespace THEN LStrip(Tail(s)) ELSE s

RECURSIVE RStrip(_)
RStrip(s) ==
    IF s # << >> /\ s[Len(s)] \in Whitespace
    THEN RStrip(SubSeq(s, 1, Len(s) - 1)) ELSE s

Strip(s) == LStrip(RStrip(s))

\* if s.startswith(q) and s.endswith(q): s = s[1:-1].strip()
Unquote(s) ==
    IF s # << >> /\ s[1] = "'" /\ s[Len(s)] = "'"
    THEN Strip(SubSeq(s, 2, Len(s) - 1)) ELSE s

\* while s and s[-1] in (")", "]", "}", ","): s = s[:-1].rstrip()
RECURSIVE DropJunk(_)
DropJunk(s) ==
    IF s # << >> /\ s[Len(s)] \in TrailingJunk
    THEN DropJunk(RStrip(SubSeq(s, 1, Len(s) - 1))) ELSE s

\* s.replace("\n", "").replace("\r", "").strip()
DropNewlines(s) == Strip(SelectSeq(s, LAMBDA c : c # "\n"))

\* s.replace(" ", "%20")
EncodeSpaces(s) == [i \in 1..Len(s) |-> IF s[i] = " " THEN "%20" ELSE s[i]]

\* schema._clean_url: quotes, trailing punctuation, newlines, spaces
SchemaCleanUrl(u) ==
    IF Strip(u) = << >> THEN << >>
    ELSE EncodeSpaces(DropNewlines(DropJunk(Unquote(Strip(u)))))

\* attachments._clean_url: quotes, newlines, trailing punctuation, spaces
CleanUrl(u) ==
    IF Strip(u) = << >> THEN << >>
    ELSE EncodeSpaces(DropJunk(DropNewlines(Unquote(Strip(u)))))

InSeq(x, q) == \E i \in 1..Len(q) : q[i] = x

\* dedupe preserve order + clean (ProductItem.all_attachment_urls and
\* InputPayload.all_attachment_urls): out is the list built so far
RECURSIVE CleanDedupe(_, _)
CleanDedupe(urls, out) ==
    IF urls = << >> THEN out
    ELSE LET u2 == SchemaCleanUrl(Head(urls))
         IN  IF u2 # << >> /\ ~InSeq(u2, out)
             THEN CleanDedupe(Tail(urls), Append(out, u2))
             ELSE CleanDedupe(Tail(urls), out)

\* InputPayload.all_attachment_urls() of a payload with one product
AllAttachmentUrls(raw) == CleanDedupe(CleanDedupe(raw, << >>), << >>)

\* analyze_attachments: the url of the finding of each URL it does not skip
\* (u = _clean_url(url); if not u: continue; every path appends one finding
\* with url = u)
RECURSIVE FindingUrls(_)
FindingUrls(urls) ==
    IF urls = << >> THEN << >>
    ELSE LET u == CleanUrl(Head(urls))
         IN  IF u = << >> THEN FindingUrls(Tail(urls))
             ELSE <<u>> \o FindingUrls(Tail(urls))

\* The functions below are analysed on their own: the service is idle and
\* stays so.
svars == <<settings, queue, sem, dpc, dst, job, ready, ntasks, tpc, tjob, pending,
           elapsed, term, firedAt, attempt, nsub, resp, events, auditFail, deq,
           genFail>>

ServiceIdle ==
    /\ settings = [max_queue_size |-> MaxQueueCfg,
                   max_concurrent_jobs |-> MaxConcCfg,
                   job_timeout_sec |-> MaxTimeoutCfg * MinTimeoutSec]
    /\ queue = << >> /\ sem = SemInit(settings)
    /\ dpc = "get" /\ dst = "blocked" /\ job = 0 /\ ready = << >>
    /\ ntasks = 0
    /\ tpc = [t \in TaskIds |-> "none"]
    /\ tjob = [t \in TaskIds |-> 0]
    /\ pending = [t \in TaskIds |-> "none"]
    /\ elapsed = [t \in TaskIds |-> 0]
    /\ term = [t \in TaskIds |-> NoEvent]
    /\ firedAt = [t \in TaskIds |-> -1]
    /\ attempt = [t \in TaskIds |-> "none"]
    /\ nsub = 0
    /\ resp = [j \in Jobs |-> "none"]
    /\ events = [j \in Jobs |-> << >>]
    /\ auditFail = FALSE
    /\ deq = [j \in Jobs |-> 0]
    /\ genFail = {}

\* ------------------------------------------------- URLs of a payload, analysed
\* payload.all_attachment_urls() of a payload whose product carries the raw
\* URLs call.raw, then analyze_attachments(settings, urls)
UrlInit ==
    /\ ServiceIdle
    /\ call \in {[fn |-> "all_attachment_urls", raw |-> r] :
                    r \in SeqsUpTo(RawUrls, MaxUrls)}
    /\ frame = [pc |-> "start", urls |-> << >>, findings |-> << >>]

CollectUrls ==
    /\ frame.pc = "start"
    /\ frame' = [frame EXCEPT !.pc = "urls", !.urls = AllAttachmentUrls(call.raw)]
    /\ UNCHANGED <<svars, call>>

AnalyzeUrls ==
    /\ frame.pc = "urls"
    /\ frame' = [frame EXCEPT !.pc = "done", !.findings = FindingUrls(frame.urls)]
    /\ UNCHANGED <<svars, call>>

UrlNext == CollectUrls \/ AnalyzeUrls

UrlSpec == UrlInit /\ [][UrlNext]_vars

\* --------------------------------------------------------------------- C12
\* C12 (as stated): analyze_attachments returns as many findings as
\* all_attachment_urls produced URLs, and the i-th finding belongs to the
\* i-th URL.
C12_AsStated ==
    frame.pc = "done" =>
        /\ Len(frame.findings) = Len(frame.urls)
        /\ \A i \in 1..Len(frame.urls) :
              i <= Len(frame.findings) => frame.findings[i] = frame.urls[i]

\* ======================================================== analyze_attachments
\* What the code looks at in a URL and in a response is kept, the rest of
\* the text is not: whether the cleaned URL is empty, whether it is a
\* folder link (_is_probably_ms_folder_link), its extension (".xlsm" acts
\* as ".xlsx"; ".jpg", ".jpeg", ".webp", ".gif" as ".png"), the class of a
\* content-type ("none": no header; "text/html": any other type) and
\* whether a length exceeds max_attachment_bytes ("big") or not ("small").
MaxAttUrls == 2         \* number of URLs handed to analyze_attachments

Exts == {"", ".pdf", ".xlsx", ".png"}
ContentTypes == {"none", "application/pdf", "spreadsheet", "image/", "text/html"}

AttUrls ==
    {u \in [empty : BOOLEAN, folder : BOOLEAN, ext : Exts] :
        u.empty => (~u.folder /\ u.ext = "")}

\* _guess_kind(url, content_type)
GuessKind(u, ct) ==
    IF u.folder THEN "folder"
    ELSE IF u.ext = ".pdf" \/ ct = "application/pdf" THEN "pdf"
    ELSE IF u.ext = ".xlsx" \/ ct = "spreadsheet" THEN "excel"
    ELSE IF u.ext = ".png" \/ ct = "image/" THEN "image"
    ELSE "unknown"

\* the findings analyze_attachments appends
FolderFinding(u) == [url |-> u, kind |-> "folder", summary |-> "Folder link detected"]
ParsedFinding(u, k) == [url |-> u, kind |-> k, summary |-> "analyzed"]
UnsupportedFinding(u) == [url |-> u, kind |-> "unknown", summary |-> "Unsupported type"]
FailedFinding(u) ==
    [url |-> u, kind |-> "unknown", summary |-> "Failed to analyze attachment"]

AttInit ==
    /\ ServiceIdle
    /\ call \in {[fn |-> "analyze_attachments", urls |-> q] :
                    q \in SeqsUpTo(AttUrls, MaxAttUrls)}
    /\ frame = [pc |-> "loop", i |-> 0, out |-> << >>, ctype |-> "none",
                kind |-> "none", reqs |-> << >>, declared |-> "none",
                raisedAt |-> {}]

\* the URL the loop is at
CurUrl == call.urls[frame.i]

\* for url in urls: skip an empty URL, answer a folder link at once, else
\* enter the try block and HttpFetcher.fetch
NextUrl ==
    /\ frame.pc = "loop"
    /\ frame.i < Len(call.urls)
    /\ LET u == call.urls[frame.i + 1]
       IN  frame' =
              IF u.empty THEN [frame EXCEPT !.i = @ + 1]
              ELSE IF u.folder
              THEN [frame EXCEPT !.i = @ + 1, !.out = Append(@, FolderFinding(u))]
              ELSE [frame EXCEPT !.i = @ + 1, !.pc = "head", !.ctype = "none",
                                 !.kind = "none", !.reqs = << >>,
                                 !.declared = "none"]
    /\ UNCHANGED <<svars, call>>

\* return out
ReturnFindings ==
    /\ frame.pc = "loop"
    /\ frame.i = Len(call.urls)
    /\ frame' = [frame EXCEPT !.pc = "done"]
    /\ UNCHANGED <<svars, call>>

\* except Exception: pass around the HEAD request: fetch goes on to the GET
OnHeadException(f) == [f EXCEPT !.pc = "get"]

\* h = client.head(url): a transport error (err), or a response with a
\* status, a content-type ct and a content-length cl ("none": absent or not
\* a number).  A declared length above the maximum raises ValueError inside
\* the try block of the HEAD request.
HeadRequest(err, status, ct, cl) ==
    /\ frame.pc = "head"
    /\ LET f == [frame EXCEPT !.reqs = Append(@, "HEAD")]
       IN  frame' =
              IF err THEN OnHeadException(f)
              ELSE IF status = "ok"
              THEN LET g == [f EXCEPT !.ctype = ct, !.declared = cl]
                   IN  IF cl = "big" THEN OnHeadException(g)
                       ELSE [g EXCEPT !.pc = "get"]
              ELSE [f EXCEPT !.pc = "get"]
    /\ UNCHANGED <<svars, call>>

\* except Exception as e of analyze_attachments: the failure becomes the
\* finding of this URL and the loop goes on
\* (_Abort: the exception ends analyze_attachments, a fault variant)
OnAnalyzeException_Abort(f) == [f EXCEPT !.raisedAt = @ \cup {f.i}, !.pc = "done"]
OnAnalyzeException(f) ==
    [f EXCEPT !.raisedAt = @ \cup {f.i},
              !.out = Append(@, FailedFinding(call.urls[f.i])),
              !.pc = "loop"]

\* r = client.get(url); r.raise_for_status(); the size check of the body;
\* kind = _guess_kind(u, ctype)
GetRequest(err, status, ct, size) ==
    /\ frame.pc = "get"
    /\ LET f == [frame EXCEPT !.reqs = Append(@, "GET")]
       IN  frame' =
              IF err \/ status # "ok" \/ size = "big" THEN OnAnalyzeException(f)
              ELSE LET c == IF ct # "none" THEN ct ELSE f.ctype
                   IN  [f EXCEPT !.ctype = c, !.kind = GuessKind(CurUrl, c),
                                 !.pc = "parse"]
    /\ UNCHANGED <<svars, call>>

\* analyze_pdf_bytes / analyze_excel_bytes return or raise (ok = FALSE);
\* analyze_image_bytes and the branch of the unknown kind return
Parse(ok) ==
    /\ frame.pc = "parse"
    /\ frame' =
          IF frame.kind = "unknown"
          THEN [frame EXCEPT !.out = Append(@, UnsupportedFinding(CurUrl)),
                             !.pc = "loop"]
          ELSE IF ok \/ frame.kind = "image"
          THEN [frame EXCEPT !.out = Append(@, ParsedFinding(CurUrl, frame.kind)),
                             !.pc = "loop"]
          ELSE OnAnalyzeException(frame)
    /\ UNCHANGED <<svars, call>>

AttNext ==
    \/ NextUrl
    \/ ReturnFindings
    \/ \E err \in BOOLEAN, status \in {"ok", "error"}, ct \in ContentTypes,
          cl \in {"none", "small", "big"} : HeadRequest(err, status, ct, cl)
    \/ \E err \in BOOLEAN, status \in {"ok", "error"}, ct \in ContentTypes,
          size \in {"small", "big"} : GetRequest(err, status, ct, size)
    \/ \E ok \in BOOLEAN : Parse(ok)

AttSpec == AttInit /\ [][AttNext]_vars

\* the kind the extension alone / the content-type alone stands for
ExtKind(ext) ==
    CASE ext = ".pdf" -> "pdf" [] ext = ".xlsx" -> "excel"
      [] ext = ".png" -> "image" [] OTHER -> "unknown"
CtKind(ct) ==
    CASE ct = "application/pdf" -> "pdf" [] ct = "spreadsheet" -> "excel"
      [] ct = "image/" -> "image" [] OTHER -> "unknown"

\* --------------------------------------------------------------------- C13
\* C13: a fetch or parse failure on one URL does not end the batch and does
\* not drop the URL.  At every moment there is one finding per URL that
\* analyze_attachments has dealt with and does not skip, in the order of
\* the URLs; the finding of a URL is the "Failed to analyze attachment"
\* finding of kind unknown exactly when an exception was raised for it;
\* findings already produced never change; and the function returns only
\* after the last URL.
C13_FailureContained ==
    /\ [](LET dealt == IF frame.pc \in {"loop", "done"} THEN frame.i ELSE frame.i - 1
              kept == {k \in 1..dealt : ~call.urls[k].empty}
              Pos(k) == Cardinality({m \in kept : m <= k})
          IN  /\ Len(frame.out) = Cardinality(kept)
              /\ \A k \in kept : frame.out[Pos(k)].url = call.urls[k]
              /\ \A k \in kept :
                    k \in frame.raisedAt <=>
                       /\ frame.out[Pos(k)].kind = "unknown"
                       /\ frame.out[Pos(k)].summary = "Failed to analyze attachment"
              /\ frame.pc = "done" => frame.i = Len(call.urls))
    /\ [][/\ Len(frame'.out) >= Len(frame.out)
          /\ \A n \in 1..Len(frame.out) : frame'.out[n] = frame.out[n]]_vars

C13_Witness ==
    /\ frame.pc = "done"
    /\ \E m, n \in 1..Len(frame.out) :
          /\ m < n
          /\ frame.out[m] = FailedFinding(call.urls[m])
          /\ m \in frame.raisedAt
          /\ frame.out[n].summary = "analyzed"

\* --------------------------------------------------------------------- C17
\* C17 (as stated): for a URL that is no folder link, whose extension
\* stands for one kind and whose content-type stands for another kind,
\* _guess_kind returns the kind of the extension.
C17_AsStated ==
    (/\ frame.pc = "parse"
     /\ ExtKind(CurUrl.ext) # "unknown"
     /\ CtKind(frame.ctype) \notin {"unknown", ExtKind(CurUrl.ext)})
    => frame.kind = ExtKind(CurUrl.ext)

\* --------------------------------------------------------------------- C18
\* C18 (as stated): when the HEAD response succeeds and declares a
\* content-length above the maximum, fetch issues no GET request (it has
\* failed with the size-limit error).
C18_AsStated ==
    frame.declared = "big" => ~InSeq("GET", frame.reqs)

\* ======================================================== analyze_excel_bytes
\* The text assembly of a workbook.  A text is kept as the sequence of its
\* blocks, a block as its kind and its length in characters; trunc tells
\* whether the block is, or ends with, a truncation marker.  The blocks are
\* joined with "\n\n".
MaxSheets == 2          \* worksheets of the workbook
MaxTables == 2          \* table regions of a worksheet
MaxGridRows == 2        \* non-trimmed rows of a worksheet matrix

MaxExcelTextChars == 180000   \* MAX_EXCEL_TEXT_CHARS
GridCapChars == 70000         \* min(remaining, 70_000)
GridSkipRows == 20            \* if table_row_samples < 20
SheetPrefixLen == 16          \* "## EXCEL SHEET: "
GridPrefixLen == 17           \* "[SHEET_GRID_TSV]\n"
TableMarkerLen == 45          \* "...[TRUNCATED: table text exceeded budget]..."
GridMarkerLen == 44           \* "...[TRUNCATED: grid text exceeded budget]..."
TsvMarkerLen == 45            \* "...[TRUNCATED: sheet text exceeded budget]..."
BlockSepLen == 2              \* "\n\n"

Min(a, b) == IF a < b THEN a ELSE b

\* lengths a workbook is given: sheet titles, table blocks (among them the
\* block that leaves one character of the budget after the header of a
\* sheet with a one-character title), rows_sample counts, grid lines
TitleLens == {1, 31}
TableLens == {100, GridCapChars, MaxExcelTextChars - (SheetPrefixLen + 1 + 1) - BlockSepLen - 1}
TableRows == {1, GridSkipRows}
LineLens == {0, 50, GridCapChars + 1}

Block(k, n, tr) == [kind |-> k, len |-> n, trunc |-> tr]

RECURSIVE SumLen(_)
SumLen(text) == IF text = << >> THEN 0 ELSE Head(text).len + SumLen(Tail(text))

\* len("\n\n".join(blocks))
TextLen(text) ==
    IF text = << >> THEN 0 ELSE SumLen(text) + BlockSepLen * (Len(text) - 1)

\* _rows_to_tsv(rows, max_chars) on the lengths of the lines of the rows:
\* n lines of total length total are out, used characters are spent
RECURSIVE TsvFold(_, _, _, _, _)
TsvFold(lines, maxc, used, n, total) ==
    IF lines = << >>
    THEN [len |-> IF n = 0 THEN 0 ELSE total + (n - 1), trunc |-> FALSE]
    ELSE IF Head(lines) = 0 THEN TsvFold(Tail(lines), maxc, used, n, total)
    ELSE IF used + Head(lines) + 1 > maxc
    THEN [len |-> total + TsvMarkerLen + n, trunc |-> TRUE]
    ELSE TsvFold(Tail(lines), maxc, used + Head(lines) + 1, n + 1,
                 total + Head(lines))

RowsToTsv(lines, maxc) == TsvFold(lines, maxc, 0, 0, 0)

ExcelInit ==
    /\ ServiceIdle
    /\ call \in {[fn |-> "analyze_excel_bytes", nsheets |-> n] : n \in 1..MaxSheets}
    /\ frame = [pc |-> "sheet", sheet |-> 0, ti |-> 0, rows |-> 0,
                remaining |-> MaxExcelTextChars, text |-> << >>]

\* for ws in wb_vals.worksheets: if remaining > 0, the sheet header
SheetStart(title) ==
    /\ frame.pc = "sheet"
    /\ frame.sheet < call.nsheets
    /\ frame' =
          IF frame.remaining > 0
          THEN [frame EXCEPT !.sheet = @ + 1, !.pc = "tables", !.ti = 0, !.rows = 0,
                   !.text = Append(@, Block("sheet", SheetPrefixLen + title, FALSE)),
                   !.remaining = @ - (SheetPrefixLen + title + 1)]
          ELSE [frame EXCEPT !.sheet = @ + 1]
    /\ UNCHANGED <<svars, call>>

\* for ti, t in enumerate(tables): a table whose block has n characters and
\* r sampled rows
TableBlock(n, r) ==
    /\ frame.pc = "tables"
    /\ frame.ti < MaxTables
    /\ frame' =
          IF frame.remaining <= 0 THEN [frame EXCEPT !.pc = "grid"]
          ELSE IF n + BlockSepLen > frame.remaining
          THEN [frame EXCEPT !.pc = "grid", !.remaining = 0,
                   !.text = Append(@, Block("marker", TableMarkerLen, TRUE))]
          ELSE [frame EXCEPT !.ti = @ + 1, !.rows = @ + r,
                   !.text = Append(@, Block("table", n, FALSE)),
                   !.remaining = @ - (n + BlockSepLen)]
    /\ UNCHANGED <<svars, call>>

\* the sheet has no further table
TablesDone ==
    /\ frame.pc = "tables"
    /\ frame' = [frame EXCEPT !.pc = "grid"]
    /\ UNCHANGED <<svars, call>>

\* the grid dump of a sheet whose matrix rows give the lines lines; the rows
\* of a detected table are rows of the matrix, hence non-empty lines
GridBlock(lines) ==
    /\ frame.pc = "grid"
    /\ frame.ti > 0 => \E k \in 1..Len(lines) : lines[k] > 0
    /\ LET g == RowsToTsv(lines, Min(frame.remaining, GridCapChars))
           n == GridPrefixLen + g.len
       IN  frame' =
              IF frame.remaining > 0 /\ frame.rows < GridSkipRows /\ g.len > 0
              THEN IF n + BlockSepLen > frame.remaining
                   THEN [frame EXCEPT !.pc = "sheet", !.remaining = 0,
                            !.text = Append(@, Block("marker", GridMarkerLen, TRUE))]
                   ELSE [frame EXCEPT !.pc = "sheet",
                            !.text = Append(@, Block("grid", n, g.trunc)),
                            !.remaining = @ - (n + BlockSepLen)]
              ELSE [frame EXCEPT !.pc = "sheet"]
    /\ UNCHANGED <<svars, call>>

\* extracted_text = "\n\n".join(extracted_blocks).strip()
ExcelDone ==
    /\ frame.pc = "sheet"
    /\ frame.sheet = call.nsheets
    /\ frame' = [frame EXCEPT !.pc = "done"]
    /\ UNCHANGED <<svars, call>>

ExcelNext ==
    \/ \E title \in TitleLens : SheetStart(title)
    \/ \E n \in TableLens, r \in TableRows : TableBlock(n, r)
    \/ TablesDone
    \/ \E lines \in SeqsUpTo(LineLens, MaxGridRows) : GridBlock(lines)
    \/ ExcelDone

ExcelSpec == ExcelInit /\ [][ExcelNext]_vars

\* --------------------------------------------------------------------- C14
\* C14 (as stated): the extracted_text of a workbook is at most the budget
\* plus one truncation marker long.
C14_AsStated ==
    frame.pc = "done" => TextLen(frame.text) <= MaxExcelTextChars + TableMarkerLen

\* --------------------------------------------------------------------- C16
\* C16 (as stated): the extracted text holds at most one truncation marker,
\* and no sheet header, table block or grid block follows it.
C16_AsStated ==
    frame.pc = "done" =>
        \A n \in 1..Len(frame.text) : frame.text[n].trunc => n = Len(frame.text)

\* ================================================ _build_pdf_extracted_text
\* The text assembly of a PDF.  The text built so far is kept as the length
\* of the joined blocks, the number of blocks, the number of truncation
\* markers among them and whether the last block is the marker.
MaxPages == 64          \* n_pages of a call of the builder

MaxPdfTextChars == 140000     \* MAX_PDF_TEXT_CHARS
PerPageCap == 2200            \* per_page_cap
OcrCap == 1800                \* ocr[:1800], vis[:1800]
PdfMarkerLen == 53            \* "...[TRUNCATED: pdf extracted_text exceeded budget]..."
SummaryPrefixLen == 28        \* "## PDF SUMMARY: pages=" and " mode="
ModeTextLen == 4              \* "text"
ModeScannedLen == 7           \* "scanned"
TextLabelLen == 17            \* "### PAGE " and " [TEXT]\n"
OcrLabelLen == 22             \* "### PAGE " and " [OCR+VISION]"
OcrTagLen == 4                \* "OCR:"
VisionTagLen == 7             \* "VISION:"

\* len(str(n))
Digits(n) == IF n < 10 THEN 1 ELSE IF n < 100 THEN 2 ELSE 3

\* page counts of a call: none, one, either side of the second digit of
\* the page labels, and the most pages
PageCounts == {0, 1, 9, 10, MaxPages}

\* lengths of the stripped page texts, OCR samples and vision samples
PageTextLens == {0, 700, 5000}
SampleLens == {0, 2000}

\* blocks = [header]; remaining -= len(blocks[-1]) + 2
BuildStart(n, scanned) ==
    LET h == SummaryPrefixLen + Digits(n)
                + (IF scanned THEN ModeScannedLen ELSE ModeTextLen)
    IN  [remaining |-> MaxPdfTextChars - (h + BlockSepLen), len |-> h,
         nblocks |-> 1, markers |-> 0, last |-> FALSE]

\* add_block without the test that the block fits (a fault variant)
AddBlock_NoFit(st, n) ==
    IF st.remaining <= 0 \/ n = 0 THEN st
    ELSE [st EXCEPT !.remaining = @ - (n + BlockSepLen), !.len = @ + BlockSepLen + n,
                    !.nblocks = @ + 1, !.last = FALSE]

\* add_block(s) on a text st, n the length of s.strip()
AddBlock(st, n) ==
    IF st.remaining <= 0 \/ n = 0 THEN st
    ELSE IF n + BlockSepLen > st.remaining
    THEN [st EXCEPT !.remaining = 0, !.len = @ + BlockSepLen + PdfMarkerLen,
                    !.nblocks = @ + 1, !.markers = @ + 1, !.last = TRUE]
    ELSE [st EXCEPT !.remaining = @ - (n + BlockSepLen), !.len = @ + BlockSepLen + n,
                    !.nblocks = @ + 1, !.last = FALSE]

\* f"### PAGE {i+1} [TEXT]\n{txt[:per_page_cap]}" for page p with a text of
\* t characters
TextBlockLen(p, t) == TextLabelLen + Digits(p) + Min(t, PerPageCap)

\* "\n".join(page_lines) for page p with o OCR and v vision characters
ScannedBlockLen(p, o, v) ==
    OcrLabelLen + Digits(p)
      + (IF o > 0 THEN 1 + OcrTagLen + 1 + Min(o, OcrCap) ELSE 0)
      + (IF v > 0 THEN 1 + VisionTagLen + 1 + Min(v, OcrCap) ELSE 0)

BuildInit ==
    /\ ServiceIdle
    /\ call \in {[fn |-> "_build_pdf_extracted_text", n_pages |-> n, npt |-> k,
                  scanned_like |-> sc] :
                    n \in PageCounts, k \in 0..MaxPages, sc \in BOOLEAN}
    /\ call.npt \in {call.n_pages, 1}
    /\ call.scanned_like => call.npt = call.n_pages
    /\ frame = [pc |-> "pages", i |-> 0,
                st |-> BuildStart(call.n_pages, call.scanned_like)]

\* one turn of for i in range(n_pages) on a page text of t characters;
\* page_texts[i] raises IndexError past the end of the list
BuildTextPage(t) ==
    /\ frame.pc = "pages"
    /\ ~call.scanned_like
    /\ frame.i < call.n_pages
    /\ LET st2 == AddBlock(frame.st, TextBlockLen(frame.i + 1, t))
       IN  frame' =
              IF frame.i >= call.npt THEN [frame EXCEPT !.pc = "raised"]
              ELSE IF t = 0 THEN [frame EXCEPT !.i = @ + 1]
              ELSE IF st2.remaining <= 0 THEN [frame EXCEPT !.st = st2, !.pc = "done"]
              ELSE [frame EXCEPT !.st = st2, !.i = @ + 1]
    /\ UNCHANGED <<svars, call>>

\* one turn of for p in range(1, n_pages + 1) with o OCR and v vision
\* characters sampled for the page
BuildScannedPage(o, v) ==
    /\ frame.pc = "pages"
    /\ call.scanned_like
    /\ frame.i < call.n_pages
    /\ LET st2 == AddBlock(frame.st, ScannedBlockLen(frame.i + 1, o, v))
       IN  frame' =
              IF o = 0 /\ v = 0 THEN [frame EXCEPT !.i = @ + 1]
              ELSE IF st2.remaining <= 0 THEN [frame EXCEPT !.st = st2, !.pc = "done"]
              ELSE [frame EXCEPT !.st = st2, !.i = @ + 1]
    /\ UNCHANGED <<svars, call>>

\* return "\n\n".join(blocks).strip() after the last page
BuildReturn ==
    /\ frame.pc = "pages"
    /\ frame.i = call.n_pages
    /\ frame' = [frame EXCEPT !.pc = "done"]
    /\ UNCHANGED <<svars, call>>

BuildNext ==
    \/ \E t \in PageTextLens : BuildTextPage(t)
    \/ \E o \in SampleLens, v \in SampleLens : BuildScannedPage(o, v)
    \/ BuildReturn

BuildSpec == BuildInit /\ [][BuildNext]_vars

\* --------------------------------------------------------------------- C15
\* C15: every text the PDF builder returns is at most the PDF budget plus
\* one truncation marker long and holds at most one truncation marker, which
\* is then its last block.
C15_PdfTextBounded ==
    frame.pc = "done" =>
        /\ frame.st.len <= MaxPdfTextChars + PdfMarkerLen
        /\ frame.st.markers <= 1
        /\ frame.st.markers = 1 => frame.st.last

\* a text-mode text that ran out of budget: the marker ends it and the text
\* is longer than the budget
C15_Witness ==
    /\ frame.pc = "done"
    /\ ~call.scanned_like
    /\ frame.st.markers = 1
    /\ frame.st.last
    /\ frame.st.len > MaxPdfTextChars

\* ========================================================== analyze_pdf_bytes
\* A PDF is the sequence of the lengths of the cleaned selectable texts of
\* its pages.  A page text is kept as its origin and its length.
MaxDocPages == 3        \* pages of a document, and settings.max_pdf_pages
MaxPageChars == 3       \* selectable characters of a page

DefaultMinChars == 40   \* MIN_PDF_TEXT_CHARS_PER_PAGE by default
NoteLen == 72           \* "DocAI OCR failed (or not configured) for scanned PDF. No text extracted."
LastErrorLen == 13      \* " Last error: "
ErrorTextLen == 24      \* f"{type(e).__name__}: {e}" of the failing call
OcrPageLen == 100       \* text of a page returned by the OCR processor

Thresholds == {0, 2, DefaultMinChars}
Docs == SeqsUpTo(0..MaxPageChars, MaxDocPages)

RECURSIVE SumSeq(_)
SumSeq(q) == IF q = << >> THEN 0 ELSE Head(q) + SumSeq(Tail(q))

PageText(k, n) == [kind |-> k, len |-> n]

\* the comparison taken as "at most" (a fault variant)
ScannedLike_AtThreshold(total, n, th) == total <= th * Max(1, n)

\* avg_text = total_text_chars / max(1, n_pages);
\* scanned_like = avg_text < settings.min_pdf_text_chars_per_page.
\* The quotient of the true division is compared exactly.
ScannedLike(total, n, th) == total < th * Max(1, n)

\* _build_pdf_extracted_text in text mode from page i on: the text st, told
\* whether the note was put in it, or the IndexError of page_texts[i]
RECURSIVE TextFold(_, _, _, _, _)
TextFold(n, pts, i, st, noted) ==
    IF i >= n THEN [raised |-> FALSE, st |-> st, noted |-> noted]
    ELSE IF i >= Len(pts) THEN [raised |-> TRUE, st |-> st, noted |-> noted]
    ELSE IF pts[i + 1].len = 0 THEN TextFold(n, pts, i + 1, st, noted)
    ELSE LET st2 == AddBlock(st, TextBlockLen(i + 1, pts[i + 1].len))
             put == st2.nblocks > st.nblocks /\ ~st2.last
             noted2 == noted \/ (put /\ pts[i + 1].kind = "note")
         IN  IF st2.remaining <= 0
             THEN [raised |-> FALSE, st |-> st2, noted |-> noted2]
             ELSE TextFold(n, pts, i + 1, st2, noted2)

\* _build_pdf_extracted_text(n_pages, page_texts, [], [], scanned_like)
BuildText(n, pts, scanned) ==
    IF scanned
    THEN [raised |-> FALSE, st |-> BuildStart(n, TRUE), noted |-> FALSE]
    ELSE TextFold(n, pts, 0, BuildStart(n, FALSE), FALSE)

PdfInit ==
    /\ ServiceIdle
    /\ call \in {[fn |-> "analyze_pdf_bytes", pages |-> d, max_pages |-> m,
                  threshold |-> th, docai_enabled |-> e] :
                    d \in Docs, m \in 1..MaxDocPages, th \in Thresholds,
                    e \in BOOLEAN}
    /\ frame = [pc |-> "read", n_pages |-> Min(Len(call.pages), call.max_pages),
                i |-> 0, total |-> 0, page_texts |-> << >>,
                scanned_like |-> FALSE, classified |-> FALSE,
                docai_used |-> FALSE, docai_error |-> FALSE, attempt |-> 1,
                fellback |-> FALSE,
                finding |-> [kind |-> "none", len |-> 0, noted |-> FALSE]]

\* for i in range(n_pages): the selectable text of page i
ReadPage ==
    /\ frame.pc = "read"
    /\ frame.i < frame.n_pages
    /\ frame' = [frame EXCEPT
                    !.i = @ + 1,
                    !.page_texts = Append(@, PageText("text", call.pages[frame.i + 1])),
                    !.total = @ + call.pages[frame.i + 1]]
    /\ UNCHANGED <<svars, call>>

\* the scanned-like classification of the document
Classify ==
    /\ frame.pc = "read"
    /\ frame.i = frame.n_pages
    /\ LET sc == ScannedLike(frame.total, frame.n_pages, call.threshold)
       IN  frame' = [frame EXCEPT !.scanned_like = sc, !.classified = sc,
                        !.pc = IF sc /\ call.docai_enabled THEN "docai" ELSE "check"]
    /\ UNCHANGED <<svars, call>>

\* for attempt in (1, 2): _docai_ocr_pdf raises, returns no page, or returns
\* k pages
DocaiOcr(outcome, k) ==
    /\ frame.pc = "docai"
    /\ LET after == IF frame.attempt = 2 THEN "check" ELSE "docai"
           pages == [j \in 1..k |-> PageText("ocr", OcrPageLen)]
       IN  frame' =
              CASE outcome = "raise" ->
                     [frame EXCEPT !.docai_error = TRUE, !.docai_used = FALSE,
                                   !.attempt = @ + 1, !.pc = after]
                [] outcome = "empty" ->
                     [frame EXCEPT !.attempt = @ + 1, !.pc = after]
                [] outcome = "pages" ->
                     [frame EXCEPT
                         !.page_texts = IF k > 1
                                        THEN SubSeq(pages, 1, Min(k, frame.n_pages))
                                        ELSE pages,
                         !.scanned_like = FALSE, !.docai_used = TRUE, !.pc = "check"]
    /\ UNCHANGED <<svars, call>>

\* if scanned_like and not docai_used: page_texts = [note]
NoteFallback ==
    /\ frame.pc = "check"
    /\ frame' =
          IF frame.scanned_like /\ ~frame.docai_used
          THEN [frame EXCEPT
                   !.page_texts =
                       <<PageText("note", NoteLen + (IF frame.docai_error
                                                     THEN LastErrorLen + ErrorTextLen
                                                     ELSE 0))>>,
                   !.scanned_like = FALSE, !.fellback = TRUE, !.pc = "build"]
          ELSE [frame EXCEPT !.pc = "build"]
    /\ UNCHANGED <<svars, call>>

\* extracted_text = _build_pdf_extracted_text(...); return AttachmentFinding
\* of kind pdf, or the exception of the builder leaves analyze_pdf_bytes
BuildAndReturn ==
    /\ frame.pc = "build"
    /\ LET b == BuildText(frame.n_pages, frame.page_texts, frame.scanned_like)
       IN  frame' =
              IF b.raised THEN [frame EXCEPT !.pc = "raised"]
              ELSE [frame EXCEPT !.pc = "done",
                       !.finding = [kind |-> "pdf", len |-> b.st.len, noted |-> b.noted]]
    /\ UNCHANGED <<svars, call>>

PdfNext ==
    \/ ReadPage
    \/ Classify
    \/ \E outcome \in {"raise", "empty", "pages"}, k \in 1..MaxDocPages :
          DocaiOcr(outcome, k)
    \/ NoteFallback
    \/ BuildAndReturn

PdfSpec == PdfInit /\ [][PdfNext]_vars

\* --------------------------------------------------------------------- C19
\* C19 (as stated): for a scanned-like PDF of one page or more whose OCR
\* failed twice or is not configured, the extractor returns a finding of
\* kind pdf whose extracted text carries the placeholder note.
C19_AsStated ==
    (frame.fellback /\ frame.n_pages >= 1 /\ frame.pc \in {"done", "raised"}) =>
        /\ frame.pc = "done"
        /\ frame.finding.kind = "pdf"
        /\ frame.finding.noted

\* --------------------------------------------------------------------- C20
\* C20: a PDF of one processed page or more is classified scanned-like
\* exactly when the total of its selectable characters over the processed
\* pages, divided by their number, is below the threshold; at an average
\* equal to the threshold it is not scanned-like.
C20_StrictlyBelow ==
    (frame.pc # "read" /\ frame.n_pages >= 1) =>
        LET chars == SumSeq(SubSeq(call.pages, 1, frame.n_pages))
        IN  /\ frame.classified <=> (chars \div frame.n_pages) < call.threshold
            /\ chars = call.threshold * frame.n_pages => ~frame.classified

\* a document of several pages whose average is exactly the threshold,
\* with pages on either side of it, classified as not scanned-like
C20_Witness ==
    /\ frame.pc = "done"
    /\ frame.n_pages >= 2
    /\ call.threshold > 0
    /\ SumSeq(SubSeq(call.pages, 1, frame.n_pages)) = call.threshold * frame.n_pages
    /\ \E j \in 1..frame.n_pages : call.pages[j] < call.threshold
    /\ ~frame.classified

\* ========================================================= analyze_image_bytes
\* An image is given by the number of characters a local OCR pass recovers
\* from it and by the length of its URL; the settings by the three values
\* _claude_vision_text tests.
MinOcrCharsToAccept == 80     \* MIN_OCR_CHARS_TO_ACCEPT by default
MaxImageTextChars == 25000    \* MAX_IMAGE_TEXT_CHARS
ImageCutBack == 80            \* extracted_text[: MAX_IMAGE_TEXT_CHARS - 80]
ImageMarkerLen == 19          \* "\n\n...[TRUNCATED]..."
ImagePrefixLen == 10          \* "## IMAGE: "
VisionPrefixLen == 8          \* "VISION:\n"
NoVisionLen == 18             \* "(no vision output)"

OcrChars == {0, MinOcrCharsToAccept - 1, MinOcrCharsToAccept, MinOcrCharsToAccept + 120}
ImageUrlLens == {20, 200}
VisionLens == {0, 50, MaxImageTextChars}

ImageInit ==
    /\ ServiceIdle
    /\ call \in {[fn |-> "analyze_image_bytes", ocr_chars |-> o, url |-> u,
                  enable_claude_vision_fallback |-> e, anthropic_api_key |-> k,
                  anthropic_model |-> m] :
                    o \in OcrChars, u \in ImageUrlLens, e \in BOOLEAN,
                    k \in BOOLEAN, m \in BOOLEAN}
    /\ frame = [pc |-> "start", invoked |-> 0, vision |-> 0, text |-> 0,
                has_vision |-> FALSE]

\* if getattr(settings, "enable_claude_vision_fallback", False): the call of
\* _claude_vision_text, which returns "" before any request when the key or
\* the model is not set
VisionGate ==
    /\ frame.pc = "start"
    /\ frame' =
          IF /\ call.enable_claude_vision_fallback
             /\ call.anthropic_api_key
             /\ call.anthropic_model
          THEN [frame EXCEPT !.pc = "invoke"]
          ELSE [frame EXCEPT !.pc = "build"]
    /\ UNCHANGED <<svars, call>>

\* llm.invoke([...]) answers n characters after strip, or raises
VisionInvoke(raises, n) ==
    /\ frame.pc = "invoke"
    /\ frame' = [frame EXCEPT !.invoked = @ + 1, !.pc = "build",
                              !.vision = IF raises THEN 0 ELSE n]
    /\ UNCHANGED <<svars, call>>

\* blocks, the join, the cut at MAX_IMAGE_TEXT_CHARS and the finding
ImageReturn ==
    /\ frame.pc = "build"
    /\ LET joined == ImagePrefixLen + call.url + BlockSepLen + VisionPrefixLen
                        + (IF frame.vision > 0 THEN frame.vision ELSE NoVisionLen)
       IN  frame' = [frame EXCEPT
                        !.pc = "done",
                        !.has_vision = frame.vision > 0,
                        !.text = IF joined > MaxImageTextChars
                                 THEN MaxImageTextChars - ImageCutBack + ImageMarkerLen
                                 ELSE joined]
    /\ UNCHANGED <<svars, call>>

ImageNext ==
    \/ VisionGate
    \/ \E raises \in BOOLEAN, n \in VisionLens : VisionInvoke(raises, n)
    \/ ImageReturn

ImageSpec == ImageInit /\ [][ImageNext]_vars

\* --------------------------------------------------------------------- C21
\* C21 (as stated): with the vision fallback configured, the vision call is
\* made exactly when local OCR recovers fewer characters than the minimum
\* to accept, and never when OCR recovers enough.
C21_AsStated ==
    (/\ frame.pc = "done"
     /\ call.enable_claude_vision_fallback
     /\ call.anthropic_api_key
     /\ call.anthropic_model) =>
        (frame.invoked > 0 <=> call.ocr_chars < MinOcrCharsToAccept)

\* ========================================================= _parse_two_outputs
\* A text is a sequence of characters.  "U+0130" is the capital I with dot
\* above, whose str.lower() is the two characters "i" and "U+0307";
\* "U+2014" is the em dash.
MaxPieceLen == 2        \* characters of a piece of text around the markers

OutputWord == <<"o", "u", "t", "p", "u", "t">>
Output1 == OutputWord \o <<" ", "1">>
Output2 == OutputWord \o <<" ", "2">>

\* candidates_1 and candidates_2, in the order of the lists
Candidates(out) ==
    << <<"=", "=", "=", " ">> \o out,
       <<"#", "#", " ", "=", "=", "=", " ">> \o out,
       <<"#", " ", "=", "=", "=", " ">> \o out,
       out \o <<":">>,
       out \o <<" ", "-">>,
       out \o <<" ", "U+2014">> >>

\* str.lower() of one character
LowerChar(c) ==
    CASE c = "O" -> <<"o">>
      [] c = "U" -> <<"u">>
      [] c = "T" -> <<"t">>
      [] c = "P" -> <<"p">>
      [] c = "X" -> <<"x">>
      [] c = "U+0130" -> <<"i", "U+0307">>
      [] OTHER -> <<c>>

\* t.lower()
RECURSIVE Lower(_)
Lower(t) == IF t = << >> THEN << >> ELSE LowerChar(Head(t)) \o Lower(Tail(t))

\* s.find(sub): the least 0-based index of sub in s, or -1
Find(sub, s) ==
    LET at == {j \in 0..(Len(s) - Len(sub)) : SubSeq(s, j + 1, j + Len(sub)) = sub}
    IN  IF at = {} THEN -1 ELSE CHOOSE j \in at : \A k \in at : j <= k

\* for c in candidates: j = t_low.find(c); if j >= 0: i = j; break
RECURSIVE FirstFound(_, _)
FirstFound(cands, low) ==
    IF cands = << >> THEN -1
    ELSE IF Find(Head(cands), low) >= 0 THEN Find(Head(cands), low)
    ELSE FirstFound(Tail(cands), low)

\* t[a:b] for 0 <= a <= b
Slice(t, a, b) == SubSeq(t, a + 1, Min(b, Len(t)))

\* the texts a model answers with: pieces of text around up to two marker
\* spellings
PreChars == {"X", " ", "U+0130"}
TextChars == {"x", " "}
Upper(w) == [j \in 1..Len(w) |->
                CASE w[j] = "o" -> "O" [] w[j] = "u" -> "U" [] w[j] = "t" -> "T"
                  [] w[j] = "p" -> "P" [] OTHER -> w[j]]
MarkerSpellings ==
    {<< >>,
     Upper(Output1) \o <<":">>, Candidates(Output1)[2],
     Upper(Output2) \o <<":">>, Candidates(Output2)[1], Upper(Candidates(Output2)[5])}
ModelTexts ==
    {pre \o ma \o mid \o mb \o suf :
        pre \in SeqsUpTo(PreChars, MaxPieceLen),
        ma \in MarkerSpellings,
        mid \in SeqsUpTo(TextChars, MaxPieceLen),
        mb \in MarkerSpellings,
        suf \in SeqsUpTo(TextChars, MaxPieceLen)}

ParseInit ==
    /\ ServiceIdle
    /\ call \in {[fn |-> "_parse_two_outputs", model_text |-> m] : m \in ModelTexts}
    /\ frame = [pc |-> "strip", t |-> << >>, i1 |-> -1, i2 |-> -1,
                out1 |-> << >>, out2 |-> << >>]

\* t = (model_text or "").strip(); if not t: return "", ""
ParseStrip ==
    /\ frame.pc = "strip"
    /\ frame' = [frame EXCEPT !.t = Strip(call.model_text),
                   !.pc = IF Strip(call.model_text) = << >> THEN "done" ELSE "find1"]
    /\ UNCHANGED <<svars, call>>

\* the search of the OUTPUT 1 marker in t_low
FindOutput1 ==
    /\ frame.pc = "find1"
    /\ frame' = [frame EXCEPT !.i1 = FirstFound(Candidates(Output1), Lower(frame.t)),
                              !.pc = "find2"]
    /\ UNCHANGED <<svars, call>>

\* the search of the OUTPUT 2 marker in t_low
FindOutput2 ==
    /\ frame.pc = "find2"
    /\ frame' = [frame EXCEPT !.i2 = FirstFound(Candidates(Output2), Lower(frame.t)),
                              !.pc = "split"]
    /\ UNCHANGED <<svars, call>>

\* the four returns, slicing the original t at the indices found in t_low
SplitOutputs ==
    /\ frame.pc = "split"
    /\ LET t == frame.t
           i1 == frame.i1
           i2 == frame.i2
       IN  frame' =
              IF i1 >= 0 /\ i2 > i1
              THEN [frame EXCEPT !.pc = "done", !.out1 = Strip(Slice(t, i1, i2)),
                                 !.out2 = Strip(Slice(t, i2, Len(t)))]
              ELSE IF i1 >= 0 /\ i2 < 0
              THEN [frame EXCEPT !.pc = "done", !.out1 = Strip(Slice(t, i1, Len(t)))]
              ELSE IF i2 >= 0 /\ i1 < 0
              THEN [frame EXCEPT !.pc = "done", !.out1 = Strip(Slice(t, 0, i2)),
                                 !.out2 = Strip(Slice(t, i2, Len(t)))]
              ELSE [frame EXCEPT !.pc = "done", !.out2 = t]
    /\ UNCHANGED <<svars, call>>

ParseNext == ParseStrip \/ FindOutput1 \/ FindOutput2 \/ SplitOutputs

ParseSpec == ParseInit /\ [][ParseNext]_vars

\* a marker of cands stands at position k of t, whatever the case of its
\* letters
MarkerAt(cands, t, k) ==
    \E n \in 1..Len(cands) :
        /\ k + Len(cands[n]) - 1 <= Len(t)
        /\ \A j \in 1..Len(cands[n]) : LowerChar(t[k + j - 1]) = <<cands[n][j]>>

HasMarker(cands, t) == \E k \in 1..Len(t) : MarkerAt(cands, t, k)

\* --------------------------------------------------------------------- C22
\* C22 (as stated): of a text, taken without the white space at its ends,
\* that holds an OUTPUT 2 marker and no OUTPUT 1 marker, section 1 is the
\* text before a marker 2 and section 2 the text from that marker to the
\* end; of a text with neither marker, section 1 is empty and section 2 is
\* the text.
C22_AsStated ==
    frame.pc = "done" =>
        LET t == Strip(call.model_text)
            m1 == HasMarker(Candidates(Output1), t)
            m2 == HasMarker(Candidates(Output2), t)
        IN  /\ (m2 /\ ~m1) =>
                \E k \in 1..Len(t) :
                    /\ MarkerAt(Candidates(Output2), t, k)
                    /\ frame.out1 = Strip(SubSeq(t, 1, k - 1))
                    /\ frame.out2 = Strip(SubSeq(t, k, Len(t)))
            /\ (~m2 /\ ~m1) => (frame.out1 = << >> /\ frame.out2 = t)

\* ====================================================== _join_attachment_text
\* A text is a sequence of characters; the header "[kind] url" of a block is
\* kept as one character of its own, which no other text holds.
MaxFindings == 2        \* findings of a call

Headers == {"[pdf] u", "[unknown] u"}
ExtractedTexts == {<< >>, <<" ">>, <<" ", "e">>}
Summaries == {<< >>, <<"s", " ">>}
Overrides == {<< >>, <<"\n">>, <<" ", "o">>}
JoinFindings == [header : Headers, extracted : ExtractedTexts, summary : Summaries]

\* the text of the block of finding a without its summary when nothing was
\* extracted (a fault variant)
BlockText_NoFallback(a) == Strip(a.extracted)

\* extracted.strip() if it is not empty, else a.summary
BlockText(a) ==
    IF Strip(a.extracted) # << >> THEN Strip(a.extracted) ELSE a.summary

\* f"[{a.kind}] {a.url}\n{...}\n"
JoinBlock(a) == <<a.header, "\n">> \o BlockText(a) \o <<"\n">>

\* "\n".join(blocks)
RECURSIVE JoinLines(_)
JoinLines(blocks) ==
    IF blocks = << >> THEN << >>
    ELSE IF Len(blocks) = 1 THEN Head(blocks)
    ELSE Head(blocks) \o <<"\n">> \o JoinLines(Tail(blocks))

JoinInit ==
    /\ ServiceIdle
    /\ call \in {[fn |-> "_join_attachment_text", override |-> o, findings |-> f] :
                    o \in Overrides, f \in SeqsUpTo(JoinFindings, MaxFindings)}
    /\ frame = [pc |-> "override", i |-> 0, blocks |-> << >>, text |-> << >>]

\* if (payload.extracted_attachment_text or "").strip(): return it stripped
JoinOverride ==
    /\ frame.pc = "override"
    /\ frame' = IF Strip(call.override) # << >>
                THEN [frame EXCEPT !.pc = "done", !.text = Strip(call.override)]
                ELSE [frame EXCEPT !.pc = "blocks"]
    /\ UNCHANGED <<svars, call>>

\* for a in attachment_findings: blocks.append(...)
JoinAppend ==
    /\ frame.pc = "blocks"
    /\ frame.i < Len(call.findings)
    /\ frame' = [frame EXCEPT !.i = @ + 1,
                    !.blocks = Append(@, JoinBlock(call.findings[frame.i + 1]))]
    /\ UNCHANGED <<svars, call>>

\* return "\n".join(blocks).strip()
JoinReturn ==
    /\ frame.pc = "blocks"
    /\ frame.i = Len(call.findings)
    /\ frame' = [frame EXCEPT !.pc = "done", !.text = Strip(JoinLines(frame.blocks))]
    /\ UNCHANGED <<svars, call>>

JoinNext == JoinOverride \/ JoinAppend \/ JoinReturn

JoinSpec == JoinInit /\ [][JoinNext]_vars

\* the positions of the block headers in a text, and the k-th of them
HeaderPositions(text) == {p \in 1..Len(text) : text[p] \in Headers}
HeaderPos(text, k) ==
    CHOOSE p \in HeaderPositions(text) :
        Cardinality({q \in HeaderPositions(text) : q <= p}) = k

\* --------------------------------------------------------------------- C23
\* C23: the assembled attachment text is the override, without the white
\* space at its ends, when the override is not blank; otherwise it holds one
\* block per finding in the order of the findings, the block of a finding
\* holding its extracted text, or its summary when nothing was extracted.
C23_OverrideOrBlocks ==
    frame.pc = "done" =>
        LET text == frame.text
            n == Len(call.findings)
            from(k) == HeaderPos(text, k) + 1
            to(k) == IF k = n THEN Len(text) ELSE HeaderPos(text, k + 1) - 1
            held(k) == IF Strip(call.findings[k].extracted) # << >>
                       THEN call.findings[k].extracted
                       ELSE call.findings[k].summary
        IN  IF Strip(call.override) # << >>
            THEN Strip(text) = Strip(call.override)
            ELSE /\ Cardinality(HeaderPositions(text)) = n
                 /\ \A k \in 1..n :
                       /\ text[HeaderPos(text, k)] = call.findings[k].header
                       /\ Strip(SubSeq(text, from(k), to(k))) = Strip(held(k))

\* two findings without override: the first gave no extracted text and its
\* block holds its summary, the second gave extracted text
C23_Witness ==
    /\ frame.pc = "done"
    /\ Strip(call.override) = << >>
    /\ Len(call.findings) = 2
    /\ Strip(call.findings[1].extracted) = << >>
    /\ call.findings[1].summary # << >>
    /\ Strip(call.findings[2].extracted) # << >>
    /\ call.findings[1].header # call.findings[2].header
    /\ Len(frame.text) > 4

\* ====================================================== _detect_table_regions
\* A cell is "" (empty), "s" (a text of at most 30 characters) or "L" (a
\* longer text); a row is a sequence of cells.
MaxCols == 4            \* cells of a row given to looks_like_header
MaxRows == 5            \* rows of a sheet matrix

MinHeaderCells == 2     \* if len(non_empty) < 2 / max(2, ...)
ShortTenths == 6        \* int(0.6 * len(non_empty))

Cells == {"", "s", "L"}

NonEmpty(row) == {j \in 1..Len(row) : row[j] # ""}
Short(row) == {j \in NonEmpty(row) : row[j] = "s"}

\* looks_like_header(row); int(0.6 * n) is the integer part of 6n/10
LooksLikeHeader(row) ==
    /\ Cardinality(NonEmpty(row)) >= MinHeaderCells
    /\ Cardinality(Short(row)) >=
          Max(MinHeaderCells, (ShortTenths * Cardinality(NonEmpty(row))) \div 10)

\* trim_right(rr)
RECURSIVE TrimRight(_)
TrimRight(row) ==
    IF row # << >> /\ row[Len(row)] = ""
    THEN TrimRight(SubSeq(row, 1, Len(row) - 1)) ELSE row

HeaderInit ==
    /\ ServiceIdle
    /\ call \in {[fn |-> "looks_like_header", row |-> w] : w \in SeqsUpTo(Cells, MaxCols)}
    /\ frame = [pc |-> "call", header |-> FALSE]

HeaderTest ==
    /\ frame.pc = "call"
    /\ frame' = [pc |-> "done", header |-> LooksLikeHeader(call.row)]
    /\ UNCHANGED <<svars, call>>

HeaderSpec == HeaderInit /\ [][HeaderTest]_vars

\* --------------------------------------------------------------------- C24
\* C24 (as stated): a row is a candidate header exactly when it has at
\* least 2 non-empty cells and at least 60% of its non-empty cells are
\* short.
C24_AsStated ==
    frame.pc = "done" =>
        (frame.header <=>
            /\ Cardinality(NonEmpty(call.row)) >= 2
            /\ 10 * Cardinality(Short(call.row)) >= 6 * Cardinality(NonEmpty(call.row)))

\* the rows of the matrices of the detection: empty, a header, a row of one
\* cell, a row with a long cell
DetectRows == {<<"", "">>, <<"s", "s">>, <<"s", "">>, <<"L", "s">>}

\* the 0-based index of the first empty row from r2 on, or len(rows)
RECURSIVE BodyEnd(_, _)
BodyEnd(rows, r2) ==
    IF r2 < Len(rows) /\ NonEmpty(rows[r2 + 1]) # {} THEN BodyEnd(rows, r2 + 1) ELSE r2

\* the scan goes on at the row after the header (a fault variant)
ResumeAt_NextRow(r, r2) == r + 1

\* r = r2 + 1
ResumeAt(r, r2) == r2 + 1

DetectInit ==
    /\ ServiceIdle
    /\ call \in {[fn |-> "_detect_table_regions", rows |-> m, max_tables |-> k] :
                    m \in SeqsUpTo(DetectRows, MaxRows), k \in 0..MaxTables}
    /\ frame = [pc |-> "scan", r |-> 0, tables |-> << >>]

\* one turn of while r < n and len(tables) < max_tables
DetectStep ==
    /\ frame.pc = "scan"
    /\ frame.r < Len(call.rows)
    /\ Len(frame.tables) < call.max_tables
    /\ LET r == frame.r
           row == call.rows[r + 1]
           r2 == BodyEnd(call.rows, r + 1)
           header == TrimRight(row)
           rowsOfBody == [j \in 1..(r2 - (r + 1)) |-> TrimRight(call.rows[r + 1 + j])]
       IN  frame' =
              IF LooksLikeHeader(row)
              THEN [frame EXCEPT
                       !.r = ResumeAt(r, r2),
                       !.tables = IF header # << >> /\ rowsOfBody # << >>
                                  THEN Append(@, [start_row |-> r + 1, end_row |-> r2,
                                                  header |-> header, body |-> rowsOfBody])
                                  ELSE @]
              ELSE [frame EXCEPT !.r = r + 1]
    /\ UNCHANGED <<svars, call>>

\* return tables
DetectReturn ==
    /\ frame.pc = "scan"
    /\ ~(frame.r < Len(call.rows) /\ Len(frame.tables) < call.max_tables)
    /\ frame' = [frame EXCEPT !.pc = "done"]
    /\ UNCHANGED <<svars, call>>

DetectNext == DetectStep \/ DetectReturn

DetectSpec == DetectInit /\ [][DetectNext]_vars

\* --------------------------------------------------------------------- C25
\* C25: the regions detected in a matrix lie within it in increasing row
\* order without overlap (each starts after the end of the one before),
\* each has a non-empty header and a non-empty body, and there are at most
\* max_tables of them.
C25_RegionsDisjoint ==
    LET tables == frame.tables
    IN  /\ Len(tables) <= call.max_tables
        /\ \A k \in 1..Len(tables) :
              /\ tables[k].header # << >>
              /\ tables[k].body # << >>
              /\ 1 <= tables[k].start_row
              /\ tables[k].start_row < tables[k].end_row
              /\ tables[k].end_row <= Len(call.rows)
              /\ Len(tables[k].body) = tables[k].end_row - tables[k].start_row
              /\ k > 1 => tables[k].start_row > tables[k - 1].end_row

\* two regions returned, the body of the first holding a row that looks
\* like a header
C25_Witness ==
    /\ frame.pc = "done"
    /\ Len(frame.tables) = 2
    /\ \E j \in 1..Len(frame.tables[1].body) : LooksLikeHeader(frame.tables[1].body[j])

\* ========================================================== concurrency claims
\* The queue is first in, first out and the dispatcher creates one task per
\* turn of its loop, so the task created t-th belongs to the turn that took
\* the t-th accepted run_id off the queue.
Dequeued(t) ==
    CHOOSE j \in Jobs :
        /\ resp[j] = "queued"
        /\ Cardinality({i \in Jobs : i <= j /\ resp[i] = "queued"}) = t

\* tasks that took their first step
Started == {t \in TaskIds : tpc[t] \in {"working", "writing", "finished"}}

\* --------------------------------------------------------------------- C26
\* C26 (as stated): every task runs the job its turn of the dispatch loop
\* took off the queue, and no job is run by two tasks.
C26_AsStated ==
    /\ \A t \in Started : tjob[t] = Dequeued(t)
    /\ \A t, u \in Started : t # u => tjob[t] # tjob[u]

\* ====================================== glide_upsert_zai_response_by_rfq_id
\* Worker threads (asyncio.to_thread) run write_all side by side; each
\* request to the record store is one step of its thread.  The store is the
\* sequence of its rows, a Row ID being the position of the row.
MaxWriters == 2         \* write_all calls running side by side

RfqIds == {"rfq-a", "rfq-b"}
Modes == {"pricing", "summary"}
Writers == 1..MaxWriters

NewRow(k) == [rfqId |-> k, pricing |-> FALSE, summary |-> FALSE]

\* SELECT * FROM table WHERE rfqId = $1 LIMIT 1: the Row ID, 0 for None
QueryRowId(store, k) ==
    LET at == {n \in 1..Len(store) : store[n].rfqId = k}
    IN  IF at = {} THEN 0 ELSE CHOOSE n \in at : \A m \in at : n <= m

UpsertInit ==
    /\ ServiceIdle
    /\ call \in {[fn |-> "glide_upsert_zai_response_by_rfq_id", writers |-> ws] :
                    ws \in [Writers -> [rfq_id : RfqIds, mode : Modes]]}
    /\ \E st \in {<< >>, <<NewRow("rfq-a")>>} :
          frame = [pc |-> [w \in Writers |-> "query"],
                   row_id |-> [w \in Writers |-> 0],
                   store |-> st]

\* row_id = _glide_query_rowid_by_rfq_id(settings, rfq_id); the request
\* succeeds (ok) or raises
UpsertQuery(w, ok) ==
    /\ frame.pc[w] = "query"
    /\ LET found == QueryRowId(frame.store, call.writers[w].rfq_id)
       IN  frame' =
              IF ~ok THEN [frame EXCEPT !.pc[w] = "raised"]
              ELSE [frame EXCEPT !.row_id[w] = found,
                                 !.pc[w] = IF found = 0 THEN "add" ELSE "set"]
    /\ UNCHANGED <<svars, call>>

\* if not row_id: row_id = _glide_add_row_with_rfq_id(settings, rfq_id)
UpsertAddRow(w, ok) ==
    /\ frame.pc[w] = "add"
    /\ frame' =
          IF ~ok THEN [frame EXCEPT !.pc[w] = "raised"]
          ELSE [frame EXCEPT
                   !.store = Append(@, NewRow(call.writers[w].rfq_id)),
                   !.row_id[w] = Len(frame.store) + 1,
                   !.pc[w] = "set"]
    /\ UNCHANGED <<svars, call>>

\* set-columns-in-row on row_id with the columns of the mode
UpsertSetColumns(w, ok) ==
    /\ frame.pc[w] = "set"
    /\ frame' =
          IF ~ok THEN [frame EXCEPT !.pc[w] = "raised"]
          ELSE [frame EXCEPT
                   !.store[frame.row_id[w]] =
                       IF call.writers[w].mode = "pricing"
                       THEN [@ EXCEPT !.pricing = TRUE]
                       ELSE [@ EXCEPT !.summary = TRUE],
                   !.pc[w] = "done"]
    /\ UNCHANGED <<svars, call>>

UpsertNext ==
    \E w \in Writers, ok \in BOOLEAN :
        \/ UpsertQuery(w, ok)
        \/ UpsertAddRow(w, ok)
        \/ UpsertSetColumns(w, ok)

UpsertSpec == UpsertInit /\ [][UpsertNext]_vars

\* --------------------------------------------------------------------- C27
\* C27 (as stated): whatever the interleaving of the writers, the record
\* store holds at most one row per correlation key.
C27_AsStated ==
    \A k \in RfqIds :
        Cardinality({n \in 1..Len(frame.store) : frame.store[n].rfqId = k}) <= 1

\* ================================================ _run_job and its worker thread
\* One job: the coroutine _run_job (co), the worker thread asyncio.to_thread
\* started last for it (th) and what the job did that others can see (log):
\* its status events and its writes to the record store.  wait_for cancels
\* the coroutine _do_work; a thread that runs is not interrupted.
JobTimeoutEvent == "FAILED: Job timeout"
JobErrorEvent == "FAILED: exception"

WorkInit ==
    /\ ServiceIdle
    /\ call \in {[fn |-> "_run_job", mode |-> m, enable_glide_writeback |-> e,
                  rfq_id |-> k] : m \in Modes, e \in BOOLEAN, k \in RfqIds}
    /\ frame = [co |-> "start", th |-> "idle", log |-> << >>]

\* RUNNING, the validation of the payload, which may raise, and
\* run_pricing / run_summary started in a thread under wait_for
WorkStart(valid) ==
    /\ frame.co = "start"
    /\ frame' =
          IF valid
          THEN [frame EXCEPT !.co = "await_run", !.th = "run",
                             !.log = Append(@, "RUNNING")]
          ELSE [frame EXCEPT !.co = "finished",
                             !.log = @ \o <<"RUNNING", JobErrorEvent>>]
    /\ UNCHANGED <<svars, call>>

\* the thread of run_pricing / run_summary returns or raises; a coroutine
\* still waiting for it starts write_all in a thread or records FAILED
WorkRunEnds(ok) ==
    /\ frame.th = "run"
    /\ frame' =
          IF frame.co # "await_run" THEN [frame EXCEPT !.th = "ended"]
          ELSE IF ok THEN [frame EXCEPT !.co = "await_write", !.th = "query"]
          ELSE [frame EXCEPT !.co = "finished", !.th = "ended",
                             !.log = Append(@, JobErrorEvent)]
    /\ UNCHANGED <<svars, call>>

\* an exception of a request of write_all ends its thread; a coroutine
\* still waiting for it records FAILED
WorkRaise(f) ==
    IF f.co = "await_write"
    THEN [f EXCEPT !.th = "ended", !.co = "finished", !.log = Append(@, JobErrorEvent)]
    ELSE [f EXCEPT !.th = "ended"]

\* write_all in its thread: with the writeback on, the query of
\* glide_upsert_zai_response_by_rfq_id, which finds the row or not, or
\* raises; else the terminal print
WorkQuery(ok, found) ==
    /\ frame.th = "query"
    /\ frame' =
          IF ~call.enable_glide_writeback THEN [frame EXCEPT !.th = "sheet"]
          ELSE IF ~ok THEN WorkRaise(frame)
          ELSE [frame EXCEPT !.th = IF found THEN "set" ELSE "add"]
    /\ UNCHANGED <<svars, call>>

\* add-row-to-table, then set-columns-in-row: each writes to the record
\* store or raises
WorkStoreWrite(ok) ==
    /\ frame.th \in {"add", "set"}
    /\ frame' =
          IF ~ok THEN WorkRaise(frame)
          ELSE IF frame.th = "add"
          THEN [frame EXCEPT !.th = "set", !.log = Append(@, "ADD_ROW")]
          ELSE [frame EXCEPT !.th = "sheet", !.log = Append(@, "SET_COLUMNS")]
    /\ UNCHANGED <<svars, call>>

\* write_all in its thread: the rows of the run log, then its return; a
\* coroutine still waiting for it records DONE
WorkSheetLog ==
    /\ frame.th = "sheet"
    /\ frame' =
          IF frame.co = "await_write"
          THEN [frame EXCEPT !.th = "ended", !.co = "finished",
                             !.log = Append(@, "DONE")]
          ELSE [frame EXCEPT !.th = "ended"]
    /\ UNCHANGED <<svars, call>>

\* the timer of wait_for fires while _do_work waits for a thread:
\* except asyncio.TimeoutError records FAILED
WorkTimeout ==
    /\ frame.co \in {"await_run", "await_write"}
    /\ frame' = [frame EXCEPT !.co = "finished",
                              !.log = Append(@, JobTimeoutEvent)]
    /\ UNCHANGED <<svars, call>>

WorkNext ==
    \/ \E valid \in BOOLEAN : WorkStart(valid)
    \/ \E ok \in BOOLEAN : WorkRunEnds(ok)
    \/ \E ok \in BOOLEAN, found \in BOOLEAN : WorkQuery(ok, found)
    \/ \E ok \in BOOLEAN : WorkStoreWrite(ok)
    \/ WorkSheetLog
    \/ WorkTimeout

WorkSpec == WorkInit /\ [][WorkNext]_vars

\* --------------------------------------------------------------------- C28
\* C28 (as stated): after the failure status of a timeout was recorded, no
\* writeback of the job reaches the record store.
C28_AsStated ==
    \A m, n \in 1..Len(frame.log) :
        (/\ frame.log[m] = JobTimeoutEvent
         /\ frame.log[n] \in {"ADD_ROW", "SET_COLUMNS"}) => n < m

\* --------------------------------------------------------------------- C29
\* C29: under every interleaving of submissions, dequeues and completions,
\* the jobs waiting in the queue are never more than max(1, max_queue_size),
\* and they are exactly the accepted jobs not yet taken off it: no
\* submission is lost or counted twice.
C29_QueueDepthBounded ==
    /\ Len(queue) <= (IF settings.max_queue_size > 1 THEN settings.max_queue_size ELSE 1)
    /\ Len(queue) = Cardinality({j \in Jobs : resp[j] = "queued" /\ deq[j] = 0})
    /\ \A m, n \in 1..Len(queue) : m < n => queue[m] < queue[n]

\* the queue at its limit again after a dequeue and a completion: a later
\* submission was accepted and the one after it rejected
C29_Witness ==
    /\ Len(queue) = (IF settings.max_queue_size > 1 THEN settings.max_queue_size ELSE 1)
    /\ \E t \in TaskIds : tpc[t] = "finished"
    /\ \E j, k \in Jobs :
          /\ j < k
          /\ deq[j] = 1
          /\ InQueue(k)
    /\ resp[MaxJobs] = "rejected"

\* --------------------------------------------------------------------- C30
\* C30 (as stated): the status events recorded for the run_id of an
\* accepted job are, in order, QUEUED, one RUNNING and one terminal event:
\* at every moment a beginning of that sequence.
C30_AsStated ==
    \A j \in Jobs :
        resp[j] = "queued" =>
            /\ Len(events[j]) \in 1..3
            /\ events[j][1].status = "QUEUED"
            /\ Len(events[j]) >= 2 => events[j][2].status = "RUNNING"
            /\ Len(events[j]) >= 3 => events[j][3].status \in Terminal

====
